---- MODULE Spec2Model ----
(***************************************************************************)
(* Deadlock analysis and simulation engine (nikithakolipakula/deadlock).   *)
(*                                                                         *)
(* The model follows the Python sources:                                   *)
(*   niki/engine/state.py   SystemState, Process, Resource                 *)
(*   niki/engine/banker.py  find_safe_sequence, is_safe_state              *)
(*   niki/engine/rag.py     wait-for graph, analyze_deadlock               *)
(*   engine/policies.py     prevention and recovery policies               *)
(*   simulator/dispatcher.py EventDispatcher                               *)
(*                                                                         *)
(* Python objects that are shared by reference (the per-process            *)
(* `allocated` and `requested` dictionaries) live in `heap`; everything    *)
(* that is copied by value is held by value.  A dictionary is a function   *)
(* whose domain is its key set; an absent key is absent from the domain.   *)
(* The event log is an append-only list whose records carry their index    *)
(* as timestamp: it is held as its length.                                 *)
(***************************************************************************)
EXTENDS Integers, Sequences, FiniteSets, TLC

VARIABLES
    heap,   \* dictionary objects: id -> dictionary (resource id -> units)
    st,     \* the SystemState under test (the dispatcher's self.state)
    cl,     \* a SystemState obtained by st.clone(), or NoState
    scenario,             \* the dispatcher's Scenario, or None without one
    hash_order,           \* the order in which this interpreter process
                          \* iterates a set of process ids (its hash seed)
    current_event_index,  \* EventDispatcher.current_event_index
    snapshots,            \* EventDispatcher.snapshots
    policy_order,         \* ResourceOrderingPolicy.resource_order
    raised,               \* an exception left step()
    first_run,            \* what an earlier complete run produced, or None
    step_calls,           \* what the last step() called, in order
    mode,                 \* EventDispatcher.mode
    paused,               \* EventDispatcher.paused
    async_pc,             \* where the run_async coroutine stands, or "none"
    executed              \* the event indices handed to execute_event

dvars == <<scenario, hash_order, current_event_index, snapshots,
           policy_order, raised, first_run, step_calls,
           mode, paused, async_pc, executed>>

vars == <<heap, st, cl, scenario, hash_order, current_event_index, snapshots,
          policy_order, raised, first_run, step_calls,
          mode, paused, async_pc, executed>>

(***************************************************************************)
(* Bounds of the model                                                     *)
(***************************************************************************)
MaxUnits == 2      \* largest total_units given to add_resource
MaxReq == 2        \* requests are issued while requested[r] stays <= MaxReq
MaxLog == 8        \* calls are issued while the event log is shorter

Procs == {"P1", "P2"}
Res == {"R1", "R2"}

\* the ascending (lexicographic) order of the resource ids
ResRank == ("R1" :> 1) @@ ("R2" :> 2)

NoState == [none |-> TRUE]

\* Python's None where a dictionary or an object is expected
NoValue == [none |-> TRUE]
EmptyDict == <<>>

(***************************************************************************)
(* Dictionaries                                                            *)
(***************************************************************************)
\* dict.get(k, 0)
Get(d, k) == IF k \in DOMAIN d THEN d[k] ELSE 0

\* d[k] = v
Put(d, k, v) == [x \in (DOMAIN d) \cup {k} |-> IF x = k THEN v ELSE d[x]]

\* del d[k]
Del(d, k) == [x \in (DOMAIN d) \ {k} |-> d[x]]

\* F applied to the value of x, x being evaluated once
Bind(x, F(_)) == CHOOSE y \in { F(v) : v \in {x} } : TRUE

\* a fresh object id
NewId(h) == CHOOSE i \in 1..(Cardinality(DOMAIN h) + 1) : i \notin DOMAIN h

(***************************************************************************)
(* state.py: Process                                                       *)
(***************************************************************************)
\* Process.need
need(h, proc, resource_id) ==
    Get(proc.max_claims, resource_id) - Get(h[proc.allocated], resource_id)

\* Process.total_need
total_need(h, proc) ==
    [res \in (DOMAIN proc.max_claims) \cup (DOMAIN h[proc.allocated])
        |-> need(h, proc, res)]

(***************************************************************************)
(* state.py: SystemState.  Every operation takes the heap h and the state  *)
(* s it is called on and returns the heap and state it leaves, its result  *)
(* ("true", "false", "none" when it returns nothing, "raise") and the      *)
(* types of the records it appended to the event log.                      *)
(***************************************************************************)
\* SystemState.__init__
SystemState ==
    [resources |-> EmptyDict, order |-> <<>>, processes |-> EmptyDict,
     event_log |-> 0]

\* SystemState._log_event: the record's timestamp is the length of the log
log_event(s, event_type) == [s EXCEPT !.event_log = @ + 1]

\* a call that leaves a record in the event log before it raises
Raise_logged(h, s) ==
    [h |-> h, s |-> log_event(s, "error"), result |-> "raise",
     log |-> <<"error">>]

\* a call that raises before it changes anything
Raise(h, s) == [h |-> h, s |-> s, result |-> "raise", log |-> <<>>]

\* a call that returns after logging one record
Return(h, s, event_type, result) ==
    [h |-> h, s |-> log_event(s, event_type), result |-> result,
     log |-> <<event_type>>]

\* SystemState._validate_process_and_resource
validate_process_and_resource(s, process_id, resource_id) ==
    /\ process_id \in DOMAIN s.processes
    /\ resource_id \in DOMAIN s.resources

\* SystemState.add_resource (with Resource.__post_init__)
add_resource(h, s, resource_id, total_units) ==
    IF resource_id \in DOMAIN s.resources THEN Raise(h, s)
    ELSE IF total_units < 0 THEN Raise(h, s)
    ELSE Return(h,
                [s EXCEPT !.resources = Put(s.resources, resource_id,
                    [total_units |-> total_units,
                     available_units |-> total_units])],
                "resource_added", "none")

\* SystemState.add_process
add_process(h, s, process_id, max_claims, priority) ==
    IF process_id \in DOMAIN s.processes THEN Raise(h, s)
    ELSE IF \E res_id \in DOMAIN max_claims :
               \/ res_id \notin DOMAIN s.resources
               \/ max_claims[res_id] > s.resources[res_id].total_units
         THEN Raise(h, s)
    ELSE LET a == NewId(h)
             h1 == Put(h, a, EmptyDict)
             q == NewId(h1)
             h2 == Put(h1, q, EmptyDict)
         IN Return(h2,
                   [s EXCEPT !.processes = Put(s.processes, process_id,
                                [max_claims |-> max_claims,
                                 allocated |-> a,
                                 requested |-> q,
                                 priority |-> priority]),
                             !.order = Append(s.order, process_id)],
                   "process_added", "none")

\* allocate: resource.available_units -= units
take_units(available_units, units) == available_units - units

\* a release that loses the units
return_units_lost(available_units, units) == available_units

\* release: resource.available_units += units
return_units(available_units, units) == available_units + units

\* a request that counts what is already on record against the need
request_within_need(h, s, process_id, resource_id, units) ==
    IF ~validate_process_and_resource(s, process_id, resource_id)
    THEN Raise(h, s)
    ELSE IF units <= 0 THEN Raise(h, s)
    ELSE LET process == s.processes[process_id] IN
         IF Get(h[process.requested], resource_id) + units
               > need(h, process, resource_id)
         THEN Return(h, s, "request_rejected:exceeds_need", "false")
         ELSE Return([h EXCEPT ![process.requested] =
                        Put(@, resource_id, Get(@, resource_id) + units)],
                     s, "request", "true")

\* SystemState.request
request(h, s, process_id, resource_id, units) ==
    IF ~validate_process_and_resource(s, process_id, resource_id)
    THEN Raise(h, s)
    ELSE IF units <= 0 THEN Raise(h, s)
    ELSE LET process == s.processes[process_id] IN
         IF units > need(h, process, resource_id)
         THEN Return(h, s, "request_rejected:exceeds_need", "false")
         ELSE Return([h EXCEPT ![process.requested] =
                        Put(@, resource_id, Get(@, resource_id) + units)],
                     s, "request", "true")

\* an allocate that takes the units off the request on record as they come:
\* no clamp at zero, and the key stays
allocate_unclamped(h, s, process_id, resource_id, units) ==
    IF ~validate_process_and_resource(s, process_id, resource_id)
    THEN Raise(h, s)
    ELSE IF units < 0 THEN Raise(h, s)
    ELSE IF units = 0 THEN Return(h, s, "allocation_skipped", "true")
    ELSE LET process == s.processes[process_id]
             resource == s.resources[resource_id]
             current_alloc == Get(h[process.allocated], resource_id)
             max_claim == Get(process.max_claims, resource_id)
         IN
         IF units > resource.available_units
         THEN Return(h, s, "allocation_failed:insufficient_available", "false")
         ELSE IF current_alloc + units > max_claim
         THEN Return(h, s, "allocation_failed:exceeds_max_claim", "false")
         ELSE LET h1 == [h EXCEPT ![process.allocated] =
                            Put(@, resource_id, current_alloc + units)]
                  rq == h1[process.requested]
                  h2 == IF resource_id \in DOMAIN rq
                        THEN [h1 EXCEPT ![process.requested] =
                                Put(rq, resource_id, rq[resource_id] - units)]
                        ELSE h1
              IN Return(h2,
                        [s EXCEPT !.resources[resource_id].available_units
                                      = take_units(@, units)],
                        "allocation", "true")

\* an allocate that leaves a fulfilled request on record, at zero
allocate_keeps_request(h, s, process_id, resource_id, units) ==
    IF ~validate_process_and_resource(s, process_id, resource_id)
    THEN Raise(h, s)
    ELSE IF units < 0 THEN Raise(h, s)
    ELSE IF units = 0 THEN Return(h, s, "allocation_skipped", "true")
    ELSE LET process == s.processes[process_id]
             resource == s.resources[resource_id]
             current_alloc == Get(h[process.allocated], resource_id)
             max_claim == Get(process.max_claims, resource_id)
         IN
         IF units > resource.available_units
         THEN Return(h, s, "allocation_failed:insufficient_available", "false")
         ELSE IF current_alloc + units > max_claim
         THEN Return(h, s, "allocation_failed:exceeds_max_claim", "false")
         ELSE LET h1 == [h EXCEPT ![process.allocated] =
                            Put(@, resource_id, current_alloc + units)]
                  rq == h1[process.requested]
                  left == IF rq[resource_id] - units > 0
                          THEN rq[resource_id] - units ELSE 0
                  h2 == IF resource_id \in DOMAIN rq
                        THEN [h1 EXCEPT ![process.requested] =
                                Put(rq, resource_id, left)]
                        ELSE h1
              IN Return(h2,
                        [s EXCEPT !.resources[resource_id].available_units
                                      = take_units(@, units)],
                        "allocation", "true")

\* SystemState.allocate
allocate(h, s, process_id, resource_id, units) ==
    IF ~validate_process_and_resource(s, process_id, resource_id)
    THEN Raise(h, s)
    ELSE IF units < 0 THEN Raise(h, s)
    ELSE IF units = 0 THEN Return(h, s, "allocation_skipped", "true")
    ELSE LET process == s.processes[process_id]
             resource == s.resources[resource_id]
             current_alloc == Get(h[process.allocated], resource_id)
             max_claim == Get(process.max_claims, resource_id)
         IN
         IF units > resource.available_units
         THEN Return(h, s, "allocation_failed:insufficient_available", "false")
         ELSE IF current_alloc + units > max_claim
         THEN Return(h, s, "allocation_failed:exceeds_max_claim", "false")
         ELSE LET h1 == [h EXCEPT ![process.allocated] =
                            Put(@, resource_id, current_alloc + units)]
                  rq == h1[process.requested]
                  left == IF rq[resource_id] - units > 0
                          THEN rq[resource_id] - units ELSE 0
                  h2 == IF resource_id \in DOMAIN rq
                        THEN [h1 EXCEPT ![process.requested] =
                                IF left = 0 THEN Del(rq, resource_id)
                                ELSE Put(rq, resource_id, left)]
                        ELSE h1
              IN Return(h2,
                        [s EXCEPT !.resources[resource_id].available_units
                                      = take_units(@, units)],
                        "allocation", "true")

\* a release that, asked for more than is held, gives back what is held
release_clamped(h, s, process_id, resource_id, units) ==
    IF ~validate_process_and_resource(s, process_id, resource_id)
    THEN Raise(h, s)
    ELSE IF units <= 0 THEN Raise(h, s)
    ELSE LET process == s.processes[process_id]
             current_alloc == Get(h[process.allocated], resource_id)
             given == IF units > current_alloc THEN current_alloc ELSE units
         IN Return([h EXCEPT ![process.allocated] =
                        IF current_alloc - given = 0 THEN Del(@, resource_id)
                        ELSE Put(@, resource_id, current_alloc - given)],
                   [s EXCEPT !.resources[resource_id].available_units
                                 = return_units(@, given)],
                   IF units > current_alloc
                   THEN "release_failed:insufficient_allocation"
                   ELSE "release",
                   IF units > current_alloc THEN "false" ELSE "true")

\* a release that keeps the key of a resource it has given back in full
release_keeps_key(h, s, process_id, resource_id, units) ==
    IF ~validate_process_and_resource(s, process_id, resource_id)
    THEN Raise(h, s)
    ELSE IF units <= 0 THEN Raise(h, s)
    ELSE LET process == s.processes[process_id]
             current_alloc == Get(h[process.allocated], resource_id)
         IN
         IF units > current_alloc
         THEN Return(h, s, "release_failed:insufficient_allocation", "false")
         ELSE Return([h EXCEPT ![process.allocated] =
                        Put(@, resource_id, current_alloc - units)],
                     [s EXCEPT !.resources[resource_id].available_units
                                   = return_units(@, units)],
                     "release", "true")

\* SystemState.release
release(h, s, process_id, resource_id, units) ==
    IF ~validate_process_and_resource(s, process_id, resource_id)
    THEN Raise(h, s)
    ELSE IF units <= 0 THEN Raise(h, s)
    ELSE LET process == s.processes[process_id]
             current_alloc == Get(h[process.allocated], resource_id)
         IN
         IF units > current_alloc
         THEN Return(h, s, "release_failed:insufficient_allocation", "false")
         ELSE Return([h EXCEPT ![process.allocated] =
                        IF current_alloc - units = 0 THEN Del(@, resource_id)
                        ELSE Put(@, resource_id, current_alloc - units)],
                     [s EXCEPT !.resources[resource_id].available_units
                                   = return_units(@, units)],
                     "release", "true")

\* the loop of remove_process: release every (resource_id, units) held
RECURSIVE release_all(_, _, _, _, _)
release_all(h, s, process_id, todo, log) ==
    IF todo = {} THEN [h |-> h, s |-> s, log |-> log]
    ELSE LET resource_id == CHOOSE r \in todo : TRUE
             units == h[s.processes[process_id].allocated][resource_id]
         IN Bind(release(h, s, process_id, resource_id, units),
                 LAMBDA out : release_all(out.h, out.s, process_id,
                                          todo \ {resource_id},
                                          log \o out.log))

\* a remove_process that drops the record with the units it holds
remove_process_leak(h, s, process_id) ==
    IF process_id \notin DOMAIN s.processes THEN Raise(h, s)
    ELSE Return(h,
                [s EXCEPT
                    !.processes = Del(@, process_id),
                    !.order = SelectSeq(@, LAMBDA p : p # process_id)],
                "process_removed", "none")

\* SystemState.remove_process
remove_process(h, s, process_id) ==
    IF process_id \notin DOMAIN s.processes THEN Raise(h, s)
    ELSE Bind(release_all(h, s, process_id,
                          DOMAIN h[s.processes[process_id].allocated], <<>>),
              LAMBDA rel :
                [Return(rel.h,
                        [rel.s EXCEPT
                            !.processes = Del(@, process_id),
                            !.order = SelectSeq(@, LAMBDA p : p # process_id)],
                        "process_removed", "none")
                   EXCEPT !.log = rel.log \o @])

\* SystemState.get_available raises for an unknown resource
get_available_raises(s, resource_id) == resource_id \notin DOMAIN s.resources

\* SystemState.get_available
get_available(s, resource_id) == s.resources[resource_id].available_units

\* SystemState.clone: deepcopy gives every process of the copy its own
\* `allocated` and `requested` dictionaries
RECURSIVE clone_processes(_, _, _)
clone_processes(h, s, todo) ==
    IF todo = <<>> THEN [h |-> h, s |-> s]
    ELSE LET pid == Head(todo)
             proc == s.processes[pid]
             a == NewId(h)
             h1 == Put(h, a, h[proc.allocated])
             q == NewId(h1)
             h2 == Put(h1, q, h[proc.requested])
         IN clone_processes(h2,
                [s EXCEPT !.processes[pid].allocated = a,
                          !.processes[pid].requested = q],
                Tail(todo))

\* a copy that shares the per-process dictionaries with the original
clone_shared(h, s) == [h |-> h, s |-> s]

clone(h, s) == clone_processes(h, s, s.order)

\* the value of a state: every dictionary reference replaced by its content
View(h, s) ==
    [resources |-> s.resources,
     order |-> s.order,
     processes |-> [pid \in DOMAIN s.processes |->
                      [max_claims |-> s.processes[pid].max_claims,
                       allocated |-> h[s.processes[pid].allocated],
                       requested |-> h[s.processes[pid].requested],
                       priority |-> s.processes[pid].priority]],
     event_log |-> s.event_log]

\* the dictionary objects a state refers to
Refs(s) ==
    IF s = NoState THEN {}
    ELSE UNION {{s.processes[pid].allocated, s.processes[pid].requested} :
                   pid \in DOMAIN s.processes}

(***************************************************************************)
(* banker.py                                                               *)
(***************************************************************************)
None == "None"

\* a needs test that stops at the first resource that fits
can_finish_some(h, s, pid, work) ==
    \E res_id \in DOMAIN s.resources :
        need(h, s.processes[pid], res_id) <= Get(work, res_id)

\* the test `need > work.get(res_id, 0)` over all resource ids
can_finish(h, s, pid, work) ==
    \A res_id \in DOMAIN s.resources :
        need(h, s.processes[pid], res_id) <= Get(work, res_id)

\* one run of the for loop over state.processes.items()
RECURSIVE banker_pass(_, _, _, _)
banker_pass(h, s, todo, acc) ==
    IF todo = <<>> THEN acc
    ELSE LET pid == Head(todo) IN
         IF pid \in acc.finish THEN banker_pass(h, s, Tail(todo), acc)
         ELSE IF can_finish(h, s, pid, acc.work)
         THEN banker_pass(h, s, Tail(todo),
                 [work |-> [res_id \in DOMAIN s.resources |->
                              Get(acc.work, res_id)
                              + Get(h[s.processes[pid].allocated], res_id)],
                  finish |-> acc.finish \cup {pid},
                  safe_sequence |-> Append(acc.safe_sequence, pid),
                  progress |-> TRUE])
         ELSE banker_pass(h, s, Tail(todo), acc)

\* the search giving up after one pass over the processes
banker_one_pass(h, s, acc) ==
    banker_pass(h, s, s.order, [acc EXCEPT !.progress = FALSE])

\* the while loop: repeat the pass as long as one made progress
RECURSIVE banker_loop(_, _, _)
banker_loop(h, s, acc) ==
    LET out == banker_pass(h, s, s.order, [acc EXCEPT !.progress = FALSE])
    IN IF out.progress THEN banker_loop(h, s, out) ELSE out

\* find_safe_sequence: [is_safe, safe_sequence]
find_safe_sequence(h, s) ==
    IF DOMAIN s.processes = {} THEN [is_safe |-> TRUE, safe_sequence |-> <<>>]
    ELSE LET out == banker_loop(h, s,
                       [work |-> [rid \in DOMAIN s.resources |->
                                     s.resources[rid].available_units],
                        finish |-> {},
                        safe_sequence |-> <<>>,
                        progress |-> TRUE])
             is_safe == out.finish = DOMAIN s.processes
         IN [is_safe |-> is_safe,
             safe_sequence |-> IF is_safe THEN out.safe_sequence ELSE None]

Unsafe == [is_safe |-> FALSE, safe_sequence |-> None]

\* the validation loop of is_safe_state over request.items(), in order:
\* "false" (return False, None), "raise" (get_available) or "ok"
RECURSIVE check_request(_, _, _, _)
check_request(h, s, proc, req) ==
    IF req = <<>> THEN "ok"
    ELSE LET res_id == Head(req)[1]
             units == Head(req)[2]
         IN IF units > need(h, proc, res_id) THEN "false"
            ELSE IF get_available_raises(s, res_id) THEN "raise"
            ELSE IF units > get_available(s, res_id) THEN "false"
            ELSE check_request(h, s, proc, Tail(req))

\* a variant of the tentative allocation loop that grants nothing
tentative_untouched(h, s, process, req) ==
    [h |-> h, s |-> s, result |-> "true", log |-> <<>>]

\* the tentative allocation loop of is_safe_state
RECURSIVE tentative(_, _, _, _)
tentative(h, s, process, req) ==
    IF req = <<>> THEN [h |-> h, s |-> s, result |-> "true", log |-> <<>>]
    ELSE LET out == allocate(h, s, process, Head(req)[1], Head(req)[2])
         IN IF out.result = "true"
            THEN tentative(out.h, out.s, process, Tail(req))
            ELSE out

\* is_safe_state(state, process, request); req is the sequence of the
\* dictionary's (resource, units) items, process may be None.
\* Returns the heap it leaves and result "raise" or "return" with the value.
is_safe_state(h, s, process, req) ==
    LET c == clone(h, s)
        test_state == c.s
    IN IF process # None /\ req # <<>>
       THEN IF process \notin DOMAIN test_state.processes
            THEN [h |-> c.h, result |-> "raise", value |-> None]
            ELSE LET chk == check_request(c.h, test_state,
                               test_state.processes[process], req)
                 IN IF chk = "false"
                    THEN [h |-> c.h, result |-> "return", value |-> Unsafe]
                    ELSE IF chk = "raise"
                    THEN [h |-> c.h, result |-> "raise", value |-> None]
                    ELSE LET out == tentative(c.h, test_state, process, req)
                         IN IF out.result = "raise"
                            THEN [h |-> out.h, result |-> "raise", value |-> None]
                            ELSE IF out.result = "false"
                            THEN [h |-> out.h, result |-> "return", value |-> Unsafe]
                            ELSE [h |-> out.h, result |-> "return",
                                  value |-> find_safe_sequence(out.h, out.s)]
       ELSE [h |-> c.h, result |-> "return",
             value |-> find_safe_sequence(c.h, test_state)]

(***************************************************************************)
(* rag.py                                                                  *)
(***************************************************************************)
\* build_wait_for_graph without the test that skips the requester itself
build_wait_for_graph_self(h, s) ==
    { e \in (DOMAIN s.processes) \X (DOMAIN s.processes) :
        \E res_id \in DOMAIN h[s.processes[e[1]].requested] :
           /\ h[s.processes[e[1]].requested][res_id] # 0
           /\ Get(h[s.processes[e[2]].allocated], res_id) > 0 }

\* build_wait_for_graph: the edges (p, q); the nodes are the processes
build_wait_for_graph(h, s) ==
    { e \in (DOMAIN s.processes) \X (DOMAIN s.processes) :
        /\ e[1] # e[2]
        /\ \E res_id \in DOMAIN h[s.processes[e[1]].requested] :
              /\ h[s.processes[e[1]].requested][res_id] # 0
              /\ Get(h[s.processes[e[2]].allocated], res_id) > 0 }

\* the simple paths of k nodes: sequences of distinct nodes, each joined
\* to the next by an edge
RECURSIVE Paths(_, _, _)
Paths(nodes, edges, k) ==
    IF k = 1 THEN { <<n>> : n \in nodes }
    ELSE { Append(x[1], x[2][2]) :
             x \in { y \in Paths(nodes, edges, k - 1) \X edges :
                       /\ y[2][1] = y[1][k - 1]
                       /\ \A i \in 1..(k - 1) : y[1][i] # y[2][2] } }

\* nx.simple_cycles: every elementary cycle once, as the list of its nodes.
\* The list starts at the cycle's first node in `first`, a sequence of all
\* nodes; the library's choice of rotation is not part of its contract.
simple_cycles(nodes, edges, first) ==
    { c \in UNION { Paths(nodes, edges, k) : k \in 1..Cardinality(nodes) } :
        /\ \A i \in 1..Len(c) : <<c[i], c[(i % Len(c)) + 1]>> \in edges
        /\ \A i \in 1..Len(first) :
              (\E j \in 1..Len(c) : c[j] = first[i])
                 => \E k \in 1..i : first[k] = c[1] }

\* a resource allocation graph without its request edges
build_resource_allocation_graph_held(h, s) ==
    [nodes |-> (DOMAIN s.resources) \cup (DOMAIN s.processes),
     resource_nodes |-> DOMAIN s.resources,
     edges |->
        { e \in (DOMAIN s.resources) \X (DOMAIN s.processes) :
            Get(h[s.processes[e[2]].allocated], e[1]) > 0 }]

\* build_resource_allocation_graph: a node for every resource and process,
\* an assignment edge (r, p) where p holds units of r and a request edge
\* (p, r) where p has units of r requested
build_resource_allocation_graph(h, s) ==
    [nodes |-> (DOMAIN s.resources) \cup (DOMAIN s.processes),
     resource_nodes |-> DOMAIN s.resources,
     edges |->
        { e \in (DOMAIN s.resources) \X (DOMAIN s.processes) :
            Get(h[s.processes[e[2]].allocated], e[1]) > 0 }
        \cup
        { e \in (DOMAIN s.processes) \X (DOMAIN s.resources) :
            Get(h[s.processes[e[1]].requested], e[2]) > 0 }]

\* detect_wait_for_cycles
detect_wait_for_cycles(h, s) ==
    Bind(build_wait_for_graph(h, s),
         LAMBDA wfg : simple_cycles(DOMAIN s.processes, wfg, s.order))

\* the members of the cycles: deadlocked_processes.update(cycle)
cycle_members(cycles) == UNION { { c[i] : i \in 1..Len(c) } : c \in cycles }

\* a deadlock test that wants more than one cycle
has_cycles_many(cycles) == Cardinality(cycles) > 1

\* has_deadlock = len(wfg_cycles) > 0
has_cycles(cycles) == cycles # {}

\* the resource nodes as a list, in ascending order of their ids
resource_list(ids) ==
    [i \in 1..Cardinality(ids) |->
        CHOOSE r \in ids :
           Cardinality({ x \in ids : ResRank[x] <= ResRank[r] }) = i]

\* detect_cycles; the resources are added to the graph before the processes
detect_cycles(s, rag) ==
    simple_cycles(rag.nodes, rag.edges,
                  resource_list(rag.resource_nodes) \o s.order)

\* the rag_cycles and deadlocked_resources of analyze_deadlock
rag_analysis(h, s) ==
    Bind(build_resource_allocation_graph(h, s), LAMBDA rag :
      Bind(detect_cycles(s, rag), LAMBDA rag_cycles :
        [rag_cycles |-> rag_cycles,
         deadlocked_resources |->
            cycle_members(rag_cycles) \cap rag.resource_nodes]))

\* analyze_deadlock.  list(deadlocked_processes) lists a set of strings:
\* its order is the order of the interpreter's string hashes, given here
\* as set_order, a sequence of all process ids.
analyze_deadlock(h, s, set_order) ==
    Bind(detect_wait_for_cycles(h, s), LAMBDA wfg_cycles :
      Bind(cycle_members(wfg_cycles), LAMBDA deadlocked :
        [has_deadlock |-> has_cycles(wfg_cycles),
         wait_for_cycles |-> wfg_cycles,
         deadlocked_processes |->
            SelectSeq(set_order, LAMBDA p : p \in deadlocked),
         process_count |-> Cardinality(DOMAIN s.processes),
         resource_count |-> Cardinality(DOMAIN s.resources)]))

(***************************************************************************)
(* policies.py: prevention.  should_allow returns result "return" with     *)
(* allowed, or "raise"; resource_order is the ordering the                 *)
(* ResourceOrderingPolicy object holds after the call.                     *)
(***************************************************************************)
\* sorted(state.resources.keys()): resource ids in ascending order
RECURSIVE sorted_ids(_)
sorted_ids(ids) ==
    IF ids = {} THEN <<>>
    ELSE LET lo == CHOOSE x \in ids : \A y \in ids : ResRank[x] <= ResRank[y]
         IN <<lo>> \o sorted_ids(ids \ {lo})

\* list.index
index(seq, x) == CHOOSE i \in 1..Len(seq) : seq[i] = x

contains(seq, x) == \E i \in 1..Len(seq) : seq[i] = x

Allow(order) == [result |-> "return", allowed |-> TRUE, resource_order |-> order]
Deny(order) == [result |-> "return", allowed |-> FALSE, resource_order |-> order]
PolicyRaise(order) == [result |-> "raise", allowed |-> FALSE, resource_order |-> order]

\* BankersPreventionPolicy.should_allow
bankers_should_allow(h, s, process_id, req, order) ==
    LET out == is_safe_state(h, s, process_id, req)
    IN IF out.result = "raise" THEN PolicyRaise(order)
       ELSE IF out.value.is_safe THEN Allow(order) ELSE Deny(order)

\* ResourceOrderingPolicy.should_allow
ordering_should_allow(h, s, process_id, req, order) ==
    LET resource_order == IF order = <<>> THEN sorted_ids(DOMAIN s.resources)
                          ELSE order
    IN IF process_id \notin DOMAIN s.processes THEN PolicyRaise(resource_order)
       ELSE LET process == s.processes[process_id]
                held_resources == { r \in DOMAIN h[process.allocated] :
                                      h[process.allocated][r] > 0 }
                ranked == { index(resource_order, r) :
                              r \in { x \in held_resources :
                                        contains(resource_order, x) } }
            IN IF held_resources = {} THEN Allow(resource_order)
               ELSE IF ranked = {} THEN PolicyRaise(resource_order)
               ELSE LET highest_held_idx ==
                            CHOOSE i \in ranked : \A j \in ranked : j <= i
                    IN IF \E k \in 1..Len(req) :
                             /\ contains(resource_order, req[k][1])
                             /\ index(resource_order, req[k][1]) < highest_held_idx
                       THEN Deny(resource_order)
                       ELSE Allow(resource_order)

\* a variant of the request loop that lets every request through
conservative_request_any(s, req, order) == Allow(order)

\* the second loop of ConservativeAllocationPolicy.should_allow, in order
RECURSIVE conservative_request(_, _, _)
conservative_request(s, req, order) ==
    IF req = <<>> THEN Allow(order)
    ELSE IF get_available_raises(s, Head(req)[1]) THEN PolicyRaise(order)
    ELSE IF Head(req)[2] > get_available(s, Head(req)[1]) THEN Deny(order)
    ELSE conservative_request(s, Tail(req), order)

\* ConservativeAllocationPolicy.should_allow
conservative_should_allow(h, s, process_id, req, order) ==
    IF process_id \notin DOMAIN s.processes THEN PolicyRaise(order)
    ELSE LET tn == total_need(h, s.processes[process_id])
         IN IF \E res_id \in DOMAIN tn :
                  tn[res_id] > s.resources[res_id].total_units
            THEN Deny(order)
            ELSE conservative_request(s, req, order)

\* the policy object get_prevention_policy built, asked about a request
should_allow(policy, h, s, process_id, req, order) ==
    IF policy = "bankers" THEN bankers_should_allow(h, s, process_id, req, order)
    ELSE IF policy = "resource_ordering"
    THEN ordering_should_allow(h, s, process_id, req, order)
    ELSE conservative_should_allow(h, s, process_id, req, order)

(***************************************************************************)
(* policies.py: recovery.  recover returns the heap and state it leaves,   *)
(* result "return" with success and the affected processes, or "raise".    *)
(***************************************************************************)
\* min(deadlocked_processes, key=...): the first of the smallest, where
\* less(a, b) says that a's key is below b's
first_min(seq, less(_, _)) ==
    seq[CHOOSE i \in 1..Len(seq) :
          /\ \A j \in 1..Len(seq) : ~less(seq[j], seq[i])
          /\ \A k \in 1..(i - 1) : \E j \in 1..Len(seq) : less(seq[j], seq[k])]

priority_of(s, pid) == s.processes[pid].priority

RECURSIVE sum_values(_)
sum_values(d) ==
    IF DOMAIN d = {} THEN 0
    ELSE LET k == CHOOSE x \in DOMAIN d : TRUE
         IN d[k] + sum_values(Del(d, k))

\* MinimalCostRecovery.calculate_cost as the fraction
\* resource_count / (priority + 1); the division raises when priority = -1
cost_raises(s, pid) == priority_of(s, pid) + 1 = 0

calculate_cost(h, s, pid) ==
    [num |-> sum_values(h[s.processes[pid].allocated]),
     den |-> priority_of(s, pid) + 1]

\* a < b for two such fractions
cost_less(a, b) ==
    IF a.den * b.den > 0 THEN a.num * b.den < b.num * a.den
    ELSE a.num * b.den > b.num * a.den

\* the victim's units go back: release(victim, res_id, units) for all it holds
preempt(h, s, victim) ==
    Bind(release_all(h, s, victim,
                     DOMAIN h[s.processes[victim].allocated], <<>>),
         LAMBDA rel :
            [h |-> rel.h, s |-> rel.s, result |-> "return", success |-> TRUE,
             affected |-> <<victim>>, log |-> rel.log])

NoRecovery(h, s) ==
    [h |-> h, s |-> s, result |-> "return", success |-> FALSE,
     affected |-> <<>>, log |-> <<>>]

RecoveryRaise(h, s) ==
    [h |-> h, s |-> s, result |-> "raise", success |-> FALSE,
     affected |-> <<>>, log |-> <<>>]

\* PreemptLowPriorityRecovery.recover
preempt_low_priority(h, s, deadlocked_processes) ==
    IF deadlocked_processes = <<>> THEN NoRecovery(h, s)
    ELSE Bind(first_min(deadlocked_processes,
                        LAMBDA a, b : priority_of(s, a) < priority_of(s, b)),
              LAMBDA victim : preempt(h, s, victim))

\* MinimalCostRecovery.recover
preempt_min_cost(h, s, deadlocked_processes) ==
    IF deadlocked_processes = <<>> THEN NoRecovery(h, s)
    ELSE IF \E i \in 1..Len(deadlocked_processes) :
               cost_raises(s, deadlocked_processes[i])
    THEN RecoveryRaise(h, s)
    ELSE Bind(first_min(deadlocked_processes,
                        LAMBDA a, b : cost_less(calculate_cost(h, s, a),
                                                calculate_cost(h, s, b))),
              LAMBDA victim : preempt(h, s, victim))

\* the loop of KillProcessRecovery(kill_all=True)
RECURSIVE remove_all(_, _, _, _)
remove_all(h, s, todo, log) ==
    IF todo = <<>> THEN [h |-> h, s |-> s, log |-> log]
    ELSE Bind(remove_process(h, s, Head(todo)),
              LAMBDA out : remove_all(out.h, out.s, Tail(todo),
                                      log \o out.log))

\* a variant of the kill policy that always removes the first process of the
\* list and no other
kill_head(h, s, deadlocked_processes, kill_all) ==
    IF deadlocked_processes = <<>> THEN NoRecovery(h, s)
    ELSE Bind(remove_process(h, s, Head(deadlocked_processes)),
              LAMBDA out :
                 [h |-> out.h, s |-> out.s, result |-> "return",
                  success |-> TRUE,
                  affected |-> <<Head(deadlocked_processes)>>,
                  log |-> out.log])

\* KillProcessRecovery.recover
kill(h, s, deadlocked_processes, kill_all) ==
    IF deadlocked_processes = <<>> THEN NoRecovery(h, s)
    ELSE IF kill_all
    THEN Bind(remove_all(h, s, deadlocked_processes, <<>>),
              LAMBDA out :
                [h |-> out.h, s |-> out.s, result |-> "return",
                 success |-> TRUE, affected |-> deadlocked_processes,
                 log |-> out.log])
    ELSE Bind(first_min(deadlocked_processes,
                        LAMBDA a, b : priority_of(s, a) < priority_of(s, b)),
              LAMBDA victim :
                Bind(remove_process(h, s, victim),
                     LAMBDA out :
                        [h |-> out.h, s |-> out.s, result |-> "return",
                         success |-> TRUE, affected |-> <<victim>>,
                         log |-> out.log]))

\* the policy object get_recovery_policy built, asked to recover
recover(policy, h, s, deadlocked_processes) ==
    IF policy = "preempt_low_priority"
    THEN preempt_low_priority(h, s, deadlocked_processes)
    ELSE IF policy = "preempt_min_cost"
    THEN preempt_min_cost(h, s, deadlocked_processes)
    ELSE kill(h, s, deadlocked_processes, policy = "kill_all")

(***************************************************************************)
(* scenario.py                                                             *)
(***************************************************************************)
\* Event: a field the timeline leaves out is absent from the record
Event(time, type, proc, res, units) ==
    [time |-> time, type |-> type, proc |-> proc, res |-> res,
     units |-> units]

\* an event that names a process only
ProcessEvent(time, type, proc) == [time |-> time, type |-> type, proc |-> proc]

\* event.proc, event.res: None when left out
field(event, name) == IF name \in DOMAIN event THEN event[name] ELSE None

\* a sort by time that is not stable: of the events of one time, the one
\* given last comes first
RECURSIVE sort_events_last_first(_)
sort_events_last_first(v) ==
    IF v = <<>> THEN <<>>
    ELSE LET i == CHOOSE k \in 1..Len(v) :
                    /\ \A j \in 1..Len(v) : v[k].time <= v[j].time
                    /\ \A j \in (k + 1)..Len(v) : v[k].time < v[j].time
         IN <<v[i]>> \o sort_events_last_first(SubSeq(v, 1, i - 1)
                                               \o SubSeq(v, i + 1, Len(v)))

\* Scenario.sort_events_by_time: sorted() is stable
RECURSIVE sort_events_by_time(_)
sort_events_by_time(v) ==
    IF v = <<>> THEN <<>>
    ELSE LET i == CHOOSE k \in 1..Len(v) :
                    /\ \A j \in 1..Len(v) : v[k].time <= v[j].time
                    /\ \A j \in 1..(k - 1) : v[k].time < v[j].time
         IN <<v[i]>> \o sort_events_by_time(SubSeq(v, 1, i - 1)
                                            \o SubSeq(v, i + 1, Len(v)))

(***************************************************************************)
(* dispatcher.py: EventDispatcher                                          *)
(***************************************************************************)
\* SystemState.snapshot: totals, availabilities, need and priority are
\* copied; allocated and requested are the process's own dictionaries
snapshot(h, s) ==
    [resources |-> [rid \in DOMAIN s.resources |->
                      [total |-> s.resources[rid].total_units,
                       available |-> s.resources[rid].available_units]],
     processes |-> [pid \in DOMAIN s.processes |->
                      [max_claims |-> s.processes[pid].max_claims,
                       allocated |-> [ref |-> s.processes[pid].allocated],
                       requested |-> [ref |-> s.processes[pid].requested],
                       need |-> total_need(h, s.processes[pid]),
                       priority |-> s.processes[pid].priority]]]

\* a variant of _take_snapshot that numbers the snapshots from 0
take_snapshot_from_zero(h, s, order, time, event_index, last_event, recovery_result) ==
    [time |-> time,
     event_index |-> event_index + 1,
     system_state |-> snapshot(h, s),
     deadlock_analysis |-> analyze_deadlock(h, s, order),
     last_event |-> last_event,
     prevention_result |-> NoValue,
     recovery_result |-> recovery_result]

\* EventDispatcher._take_snapshot
take_snapshot(h, s, order, time, event_index, last_event, recovery_result) ==
    [time |-> time,
     event_index |-> event_index,
     system_state |-> snapshot(h, s),
     deadlock_analysis |-> analyze_deadlock(h, s, order),
     last_event |-> last_event,
     prevention_result |-> NoValue,
     recovery_result |-> recovery_result]

\* what a dictionary field of a snapshot holds when it is read
Deref(h, d) == h[d.ref]

\* a snapshot as a reader (an export, a callback) sees it
Contents(h, snap) ==
    [snap EXCEPT !.system_state.processes =
        [pid \in DOMAIN @ |->
            [@[pid] EXCEPT !.allocated = Deref(h, @),
                           !.requested = Deref(h, @)]]]

\* the dictionary objects the snapshots refer to
SnapshotRefs(snaps) ==
    UNION { UNION { {snaps[i].system_state.processes[pid].allocated.ref,
                     snaps[i].system_state.processes[pid].requested.ref}
                    : pid \in DOMAIN snaps[i].system_state.processes }
            : i \in 1..Len(snaps) }

\* the result dictionary of execute_event
EventResult(success, error, prevention_blocked) ==
    [success |-> success, error |-> error,
     prevention_blocked |-> prevention_blocked]

\* a state call made by execute_event, with the result it stores
Applied(out, order) ==
    [h |-> out.h, s |-> out.s, resource_order |-> order, log |-> out.log,
     calls |-> <<"state", "on_event">>,
     result |-> IF out.result = "raise" THEN EventResult(FALSE, TRUE, FALSE)
                ELSE EventResult(out.result # "false", FALSE, FALSE)]

\* event.max or {}
max_or_empty(event) == IF "max" \in DOMAIN event THEN event.max ELSE EmptyDict

\* event.priority or 0
priority_or_zero(event) ==
    IF "priority" \in DOMAIN event THEN event.priority ELSE 0

\* the REQUEST branch recording the request before it reports the denial
checked_request_recorded(h, s, proc, res, units, prevention_policy, order) ==
    Bind(should_allow(prevention_policy, h, s, proc, << <<res, units>> >>,
                      order),
         LAMBDA verdict :
            IF verdict.result = "raise"
            THEN [h |-> h, s |-> s, log |-> <<>>,
                  resource_order |-> verdict.resource_order,
                  calls |-> <<"should_allow", "on_event">>,
                  result |-> EventResult(FALSE, TRUE, FALSE)]
            ELSE Bind(request(h, s, proc, res, units),
                      LAMBDA out :
                         IF ~verdict.allowed
                         THEN [h |-> out.h, s |-> out.s, log |-> out.log,
                               resource_order |-> verdict.resource_order,
                               calls |-> <<"should_allow", "on_prevention">>,
                               result |-> EventResult(FALSE, FALSE, TRUE)]
                         ELSE [Applied(out, verdict.resource_order)
                                 EXCEPT !.calls = <<"should_allow">> \o @]))

\* the REQUEST branch of execute_event under a prevention policy
checked_request(h, s, proc, res, units, prevention_policy, order) ==
    Bind(should_allow(prevention_policy, h, s, proc, << <<res, units>> >>,
                      order),
         LAMBDA verdict :
            IF verdict.result = "raise"
            THEN [h |-> h, s |-> s, log |-> <<>>,
                  resource_order |-> verdict.resource_order,
                  calls |-> <<"should_allow", "on_event">>,
                  result |-> EventResult(FALSE, TRUE, FALSE)]
            ELSE IF ~verdict.allowed
            THEN [h |-> h, s |-> s, log |-> <<>>,
                  resource_order |-> verdict.resource_order,
                  calls |-> <<"should_allow", "on_prevention">>,
                  result |-> EventResult(FALSE, FALSE, TRUE)]
            ELSE Bind(request(h, s, proc, res, units),
                      LAMBDA out :
                         [Applied(out, verdict.resource_order)
                             EXCEPT !.calls = <<"should_allow">> \o @]))

\* EventDispatcher.execute_event
execute_event(h, s, event, prevention_policy, order) ==
    Bind(IF event.type = "allocate"
         THEN allocate(h, s, field(event, "proc"), field(event, "res"),
                       event.units)
         ELSE IF event.type = "request"
         THEN IF prevention_policy = "none"
              THEN request(h, s, field(event, "proc"), field(event, "res"),
                           event.units)
              ELSE checked_request(h, s, field(event, "proc"),
                                   field(event, "res"), event.units,
                                   prevention_policy, order)
         ELSE IF event.type = "release"
         THEN release(h, s, field(event, "proc"), field(event, "res"),
                      event.units)
         ELSE IF event.type = "add_process"
         THEN add_process(h, s, field(event, "proc"), max_or_empty(event),
                          priority_or_zero(event))
         ELSE remove_process(h, s, field(event, "proc")),
         LAMBDA out : IF "resource_order" \in DOMAIN out THEN out
                      ELSE Applied(out, order))

\* EventDispatcher.check_and_recover_deadlock: recovery_result is None
\* unless a deadlock was found and a recovery policy is set
check_and_recover_deadlock(h, s, recovery_policy, order) ==
    Bind(analyze_deadlock(h, s, order), LAMBDA analysis :
       IF analysis.has_deadlock /\ recovery_policy # "none"
       THEN Bind(recover(recovery_policy, h, s, analysis.deadlocked_processes),
                 LAMBDA out :
                    [h |-> out.h, s |-> out.s, result |-> out.result,
                     log |-> out.log,
                     calls |-> IF out.result = "raise"
                               THEN <<"analyze_deadlock", "on_deadlock",
                                      "recover">>
                               ELSE <<"analyze_deadlock", "on_deadlock",
                                      "recover", "on_recovery">>,
                     recovery_result |-> [success |-> out.success,
                                          affected_processes |-> out.affected,
                                          analysis |-> analysis]])
       ELSE [h |-> h, s |-> s, result |-> "return", log |-> <<>>,
             calls |-> IF analysis.has_deadlock
                       THEN <<"analyze_deadlock", "on_deadlock">>
                       ELSE <<"analyze_deadlock">>,
             recovery_result |-> NoValue])

\* the two loops of EventDispatcher._initialize_state
RECURSIVE add_resources(_, _, _)
add_resources(h, s, todo) ==
    IF todo = <<>> THEN [h |-> h, s |-> s, result |-> "none"]
    ELSE Bind(add_resource(h, s, Head(todo).id, Head(todo).units),
              LAMBDA out : IF out.result = "raise" THEN out
                           ELSE add_resources(out.h, out.s, Tail(todo)))

RECURSIVE add_processes(_, _, _)
add_processes(h, s, todo) ==
    IF todo = <<>> THEN [h |-> h, s |-> s, result |-> "none"]
    ELSE Bind(add_process(h, s, Head(todo).id, Head(todo).max,
                          Head(todo).priority),
              LAMBDA out : IF out.result = "raise" THEN out
                           ELSE add_processes(out.h, out.s, Tail(todo)))

\* self.state = SystemState() followed by EventDispatcher._initialize_state:
\* the state and the snapshot list it leaves, h being the heap before
initialize_state(h, scen, order) ==
    Bind(add_resources(h, SystemState, scen.resources), LAMBDA res :
      Bind(IF res.result = "raise" THEN res
           ELSE add_processes(res.h, res.s, scen.processes),
           LAMBDA out :
             [h |-> out.h, s |-> out.s, result |-> out.result,
              snapshots |-> IF out.result = "raise" THEN <<>>
                            ELSE <<take_snapshot(out.h, out.s, order, 0, 0 - 1,
                                                 NoValue, NoValue)>>]))

(***************************************************************************)
(* Calls on the state.  A call on target t ("st" or "cl") leaves the other *)
(* state variable alone; dictionaries no state refers to are collected.    *)
(***************************************************************************)
Target(t) == IF t = "st" THEN st ELSE cl

Collect(h, roots) == [i \in (DOMAIN h) \cap roots |-> h[i]]

Commit(t, out) ==
    /\ st' = IF t = "st" THEN out.s ELSE st
    /\ cl' = IF t = "cl" THEN out.s ELSE cl
    /\ heap' = Collect(out.h, Refs(st') \cup Refs(cl'))
    /\ UNCHANGED dvars

Open(t) == Target(t) # NoState /\ Target(t).event_log < MaxLog

\* inputs of the calls
UnitInputs == {0 - 1, 0, 1, MaxUnits}
TotalInputs == {0 - 1, 1, MaxUnits}
MaxClaimInputs ==
    { ("R1" :> 1) @@ ("R2" :> 1),
      ("R1" :> MaxUnits) @@ ("R2" :> MaxUnits),
      ("R1" :> 0 - 1),
      ("R2" :> MaxUnits + 1) }
RequestInputs ==
    { << <<"R1", 1>> >>, << <<"R2", MaxUnits>> >>, << <<"R2", 0 - 1>> >>,
      << <<"R1", 1>>, <<"R2", 1>> >> }

AddResource(t, r, u) ==
    /\ Open(t)
    /\ Commit(t, add_resource(heap, Target(t), r, u))

AddProcess(t, p, mc) ==
    /\ Open(t)
    /\ Commit(t, add_process(heap, Target(t), p, mc, 0))

Request(t, p, r, u) ==
    /\ Open(t)
    /\ p \in DOMAIN Target(t).processes =>
          Get(heap[Target(t).processes[p].requested], r) + u <= MaxReq
    /\ Commit(t, request(heap, Target(t), p, r, u))

Allocate(t, p, r, u) ==
    /\ Open(t)
    /\ Commit(t, allocate(heap, Target(t), p, r, u))

Release(t, p, r, u) ==
    /\ Open(t)
    /\ Commit(t, release(heap, Target(t), p, r, u))

RemoveProcess(t, p) ==
    /\ Open(t)
    /\ Commit(t, remove_process(heap, Target(t), p))

\* is_safe_state(st, p, request): test_state is dropped on return
IsSafeState(p, rq) ==
    /\ Open("st")
    /\ LET out == is_safe_state(heap, st, p, rq)
       IN heap' = Collect(out.h, Refs(st) \cup Refs(cl))
    /\ UNCHANGED <<st, cl>>
    /\ UNCHANGED dvars

\* c = st.clone()
Clone ==
    /\ cl = NoState
    /\ LET out == clone(heap, st)
       IN /\ cl' = out.s
          /\ heap' = Collect(out.h, Refs(st) \cup Refs(out.s))
    /\ UNCHANGED st
    /\ UNCHANGED dvars

\* no dispatcher has been built
NoDispatcher ==
    /\ scenario = NoValue
    /\ hash_order = <<>>
    /\ current_event_index = 0
    /\ snapshots = <<>>
    /\ policy_order = <<>>
    /\ raised = FALSE
    /\ first_run = NoValue
    /\ step_calls = <<>>
    /\ mode = "continuous"
    /\ paused = FALSE
    /\ async_pc = "none"
    /\ executed = <<>>

Init ==
    /\ heap = EmptyDict
    /\ st = SystemState
    /\ cl = NoState
    /\ NoDispatcher

Next ==
    \/ \E r \in Res, u \in TotalInputs : AddResource("st", r, u)
    \/ \E p \in Procs, mc \in MaxClaimInputs : AddProcess("st", p, mc)
    \/ \E p \in Procs, r \in Res, u \in UnitInputs : Request("st", p, r, u)
    \/ \E p \in Procs, r \in Res, u \in UnitInputs : Allocate("st", p, r, u)
    \/ \E p \in Procs, r \in Res, u \in UnitInputs : Release("st", p, r, u)
    \/ \E p \in Procs : RemoveProcess("st", p)
    \/ \E p \in Procs, rq \in RequestInputs : IsSafeState(p, rq)
    \/ IsSafeState(None, <<>>)

Spec == Init /\ [][Next]_vars

(***************************************************************************)
(* A state and its clone: the same calls, on either of the two.            *)
(***************************************************************************)
CloneClaims == { ("R1" :> 1) @@ ("R2" :> 1) }

\* calls are issued while the two event logs together are shorter
MaxCloneLog == 9

Both == cl # NoState => st.event_log + cl.event_log < MaxCloneLog

NextClone ==
    \/ Clone
    \/ \E t \in {"st", "cl"}, r \in Res : Both /\ AddResource(t, r, 1)
    \/ \E t \in {"st", "cl"}, p \in Procs, mc \in CloneClaims :
          Both /\ AddProcess(t, p, mc)
    \/ \E t \in {"st", "cl"}, p \in Procs, r \in Res :
          Both /\ Request(t, p, r, 1)
    \/ \E t \in {"st", "cl"}, p \in Procs, r \in Res :
          Both /\ Allocate(t, p, r, 1)
    \/ \E t \in {"st", "cl"}, p \in Procs, r \in Res :
          Both /\ Release(t, p, r, 1)
    \/ \E t \in {"st", "cl"}, p \in Procs : Both /\ RemoveProcess(t, p)

SpecClone == Init /\ [][NextClone]_vars

(***************************************************************************)
(* The dispatcher: one scenario, stepped to its end, reset, and run again  *)
(* by a second interpreter process.                                        *)
(***************************************************************************)
DispProcs == <<"P1", "P2", "P3">>

\* iteration orders of a set of process ids under two hash seeds: the one
\* of the interpreter that builds the first dispatcher, and another
FirstOrder == <<"P1", "P2", "P3", "P4">>
HashOrders == { FirstOrder, <<"P4", "P3", "P2", "P1">> }

ResourceConfigs ==
    { << [id |-> "R1", units |-> u], [id |-> "R2", units |-> 1] >> :
        u \in {1, MaxUnits} }

PriorityInputs == { <<0, 0, 0>>, <<1, 0, 0 - 1>> }

ProcessConfigs ==
    { [i \in 1..3 |-> [id |-> DispProcs[i],
                       max |-> ("R1" :> 1) @@ ("R2" :> 1),
                       priority |-> pr[i]]] : pr \in PriorityInputs }

PolicyInputs ==
    ({"none"} \X {"none", "preempt_low_priority", "preempt_min_cost",
                  "kill_one", "kill_all"})
    \cup ({"bankers", "resource_ordering", "conservative"} \X {"none"})
    \cup {<<"bankers", "preempt_low_priority">>}

\* create_simple_scenario(2, 2, 1): the circular wait, times doubled
SimpleTimeline ==
    << Event(0, "allocate", "P1", "R1", 1), Event(1, "request", "P1", "R2", 1),
       Event(2, "allocate", "P2", "R2", 1), Event(3, "request", "P2", "R1", 1) >>

\* the requests come first, the allocations close the cycle
RequestFirstTimeline ==
    << Event(0, "request", "P1", "R2", 1), Event(1, "request", "P2", "R1", 1),
       Event(2, "allocate", "P1", "R1", 1), Event(3, "allocate", "P2", "R2", 1) >>

\* one request that closes two cycles through P2 at once
DoubleCycleTimeline ==
    << Event(0, "allocate", "P1", "R1", 1), Event(1, "allocate", "P3", "R1", 1),
       Event(2, "allocate", "P2", "R2", 1), Event(3, "request", "P1", "R2", 1),
       Event(4, "request", "P3", "R2", 1), Event(5, "request", "P2", "R1", 1) >>

Timelines ==
    { <<>>, SimpleTimeline, RequestFirstTimeline, DoubleCycleTimeline }

LastTime == 9

EventInputs ==
    { Event(LastTime, "allocate", "P3", "R1", 1),
      Event(LastTime, "release", "P1", "R1", 1),
      Event(LastTime, "request", "P1", "R2", 1),
      [time |-> LastTime, type |-> "request", res |-> "R1", units |-> 1],
      ProcessEvent(LastTime, "remove_process", "P2"),
      [time |-> LastTime, type |-> "add_process", proc |-> "P4",
       max |-> ("R1" :> 0 - 1)],
      Event(0, "allocate", "P2", "R1", 1) }

\* a timeline is run as it is, or with one more event
Suffixes == {<<>>} \cup { <<e>> : e \in EventInputs }

\* Scenario(...): the events validator sorts the timeline
\* the event list a scenario is built from: the extra event is given out of
\* place, a late one at the head of the list and an early one at its end
EventList(tl, sf) ==
    IF sf # <<>> /\ sf[1].time > 0 THEN sf \o tl ELSE tl \o sf

\* Scenario(...): the validator of the events field sorts the list given;
\* timeline keeps the list as it was given
Scenarios ==
    { [resources |-> rc, processes |-> pc,
       timeline |-> EventList(tl, sf),
       events |-> sort_events_by_time(EventList(tl, sf)),
       prevention_policy |-> pol[1], recovery_policy |-> pol[2]] :
        rc \in ResourceConfigs, pc \in ProcessConfigs, tl \in Timelines,
        sf \in Suffixes, pol \in PolicyInputs }

\* EventDispatcher(scenario) in an interpreter whose sets iterate in order
Construct(scen, order) ==
    \E init \in {initialize_state(EmptyDict, scen, order)} :
       /\ init.result # "raise"
       /\ scenario' = scen
       /\ hash_order' = order
       /\ st' = init.s
       /\ cl' = NoState
       /\ snapshots' = init.snapshots
       /\ heap' = Collect(init.h, Refs(init.s) \cup SnapshotRefs(init.snapshots))
       /\ current_event_index' = 0
       /\ policy_order' = <<>>
       /\ raised' = FALSE
       /\ step_calls' = <<>>
       /\ mode' = "continuous"
       /\ paused' = FALSE
       /\ async_pc' = "none"
       /\ executed' = <<>>

InitDisp ==
    \E scen \in Scenarios, order \in {FirstOrder} :
        \E init \in {initialize_state(EmptyDict, scen, order)} :
           /\ init.result # "raise"
           /\ scenario = scen
           /\ hash_order = order
           /\ st = init.s
           /\ cl = NoState
           /\ snapshots = init.snapshots
           /\ heap = Collect(init.h,
                             Refs(init.s) \cup SnapshotRefs(init.snapshots))
           /\ current_event_index = 0
           /\ policy_order = <<>>
           /\ raised = FALSE
           /\ first_run = NoValue
           /\ step_calls = <<>>
           /\ mode = "continuous"
           /\ paused = FALSE
           /\ async_pc = "none"
           /\ executed = <<>>

\* run() has nothing left to do: the timeline is exhausted or step() raised
Finished ==
    raised \/ current_event_index >= Len(scenario.events)

\* what a run leaves for its caller: the snapshots as they read, the final
\* state, and whether it ended in an exception
Observed(h, s, snaps, exc) ==
    [snapshots |-> [i \in 1..Len(snaps) |-> Contents(h, snaps[i])],
     state |-> View(h, s),
     raised |-> exc]

\* step() taking its snapshot of the state as the event left it, before the
\* deadlock check and the recovery
Step_snapshot_first ==
    /\ scenario # NoValue
    /\ ~Finished
    /\ \E event \in {scenario.events[current_event_index + 1]} :
       \E ev \in {execute_event(heap, st, event, scenario.prevention_policy,
                                policy_order)} :
       \E rec \in {check_and_recover_deadlock(ev.h, ev.s,
                                              scenario.recovery_policy,
                                              hash_order)} :
          /\ st' = rec.s
          /\ policy_order' = ev.resource_order
          /\ IF rec.result = "raise"
             THEN /\ raised' = TRUE
                  /\ step_calls' = ev.calls \o rec.calls
                  /\ UNCHANGED <<snapshots, current_event_index>>
             ELSE /\ raised' = FALSE
                  /\ step_calls' = ev.calls \o rec.calls
                                       \o <<"take_snapshot">>
                  /\ snapshots' =
                        Append(snapshots,
                               take_snapshot(ev.h, ev.s, hash_order,
                                             event.time, current_event_index,
                                             ev.result, rec.recovery_result))
                  /\ current_event_index' = current_event_index + 1
          /\ heap' = Collect(rec.h, Refs(rec.s) \cup SnapshotRefs(snapshots'))
    /\ executed' = Append(executed, current_event_index)
    /\ UNCHANGED <<cl, scenario, hash_order, first_run, mode, paused, async_pc>>

\* the body of EventDispatcher.step for an index before the end; an
\* exception of the recovery policy leaves it before the snapshot is taken
\* and the index is advanced
step ==
    /\ scenario # NoValue
    /\ current_event_index < Len(scenario.events)
    /\ \E event \in {scenario.events[current_event_index + 1]} :
       \E ev \in {execute_event(heap, st, event, scenario.prevention_policy,
                                policy_order)} :
       \E rec \in {check_and_recover_deadlock(ev.h, ev.s,
                                              scenario.recovery_policy,
                                              hash_order)} :
          /\ st' = rec.s
          /\ policy_order' = ev.resource_order
          /\ IF rec.result = "raise"
             THEN /\ raised' = TRUE
                  /\ step_calls' = ev.calls \o rec.calls
                  /\ UNCHANGED <<snapshots, current_event_index>>
             ELSE /\ raised' = FALSE
                  /\ step_calls' = ev.calls \o rec.calls
                                       \o <<"take_snapshot">>
                  /\ snapshots' =
                        Append(snapshots,
                               take_snapshot(rec.h, rec.s, hash_order,
                                             event.time, current_event_index,
                                             ev.result, rec.recovery_result))
                  /\ current_event_index' = current_event_index + 1
          /\ heap' = Collect(rec.h, Refs(rec.s) \cup SnapshotRefs(snapshots'))
    /\ executed' = Append(executed, current_event_index)
    /\ UNCHANGED <<cl, scenario, hash_order, first_run>>

\* EventDispatcher.step called by run() or by a synchronous driver, which
\* does not call again once an exception has left step()
Step ==
    /\ ~raised
    /\ step
    /\ UNCHANGED <<mode, paused, async_pc>>

\* the first complete run is remembered when the dispatcher is reset or
\* replaced
Remember ==
    first_run' = IF first_run = NoValue /\ Finished
                 THEN Observed(heap, st, snapshots, raised)
                 ELSE first_run

\* a variant of reset that leaves current_event_index where it was
Reset_keeps_index ==
    /\ scenario # NoValue
    /\ \E init \in {initialize_state(EmptyDict, scenario, hash_order)} :
          /\ st' = init.s
          /\ snapshots' = init.snapshots
          /\ heap' = Collect(init.h,
                             Refs(init.s) \cup SnapshotRefs(init.snapshots))
    /\ raised' = FALSE
    /\ step_calls' = <<>>
    /\ paused' = FALSE
    /\ executed' = <<>>
    /\ Remember
    /\ UNCHANGED <<cl, scenario, hash_order, policy_order,
                   current_event_index, mode, async_pc>>

\* EventDispatcher.reset: same dispatcher, same policy objects; the old
\* state and snapshots are dropped, and their dictionaries with them
Reset ==
    /\ scenario # NoValue
    /\ \E init \in {initialize_state(EmptyDict, scenario, hash_order)} :
          /\ st' = init.s
          /\ snapshots' = init.snapshots
          /\ heap' = Collect(init.h,
                             Refs(init.s) \cup SnapshotRefs(init.snapshots))
    /\ current_event_index' = 0
    /\ raised' = FALSE
    /\ step_calls' = <<>>
    /\ paused' = FALSE
    /\ executed' = <<>>
    /\ Remember
    /\ UNCHANGED <<cl, scenario, hash_order, policy_order, mode, async_pc>>

\* a second run of the same scenario by a fresh dispatcher, in the same or
\* in another interpreter process
Rerun ==
    /\ scenario # NoValue
    /\ Finished
    /\ first_run = NoValue
    /\ \E order \in HashOrders : Construct(scenario, order)
    /\ Remember

NextDisp ==
    \/ Step
    \/ Reset
    \/ Rerun

SpecDisp == InitDisp /\ [][NextDisp]_vars

\* EventDispatcher.get_summary
get_summary(scen, event_index, snaps) ==
    [total_events |-> Len(scen.events),
     executed_events |-> event_index,
     deadlock_detected_count |->
        Cardinality({ k \in 1..Len(snaps) :
                        snaps[k].deadlock_analysis.has_deadlock }),
     recovery_attempts |->
        Cardinality({ k \in 1..Len(snaps) :
                        snaps[k].recovery_result # NoValue }),
     snapshots |-> Len(snaps)]

(***************************************************************************)
(* One call of run(): the loop calls step() until the index is past the    *)
(* end or an exception leaves it; the caller may then call step() again.   *)
(***************************************************************************)
\* a variant of the step past the end that drops the snapshots
StepPastEnd_drops ==
    /\ scenario # NoValue
    /\ current_event_index >= Len(scenario.events)
    /\ snapshots' = <<>>
    /\ step_calls' = <<>>
    /\ UNCHANGED <<heap, st, cl, scenario, hash_order, current_event_index,
                   policy_order, raised, first_run, mode, paused, async_pc,
                   executed>>

\* step() when current_event_index is past the end: it returns None and
\* has called nothing
StepPastEnd ==
    /\ scenario # NoValue
    /\ current_event_index >= Len(scenario.events)
    /\ step_calls' = <<>>
    /\ UNCHANGED <<heap, st, cl, scenario, hash_order, current_event_index,
                   snapshots, policy_order, raised, first_run, mode, paused,
                   async_pc, executed>>

NextRun ==
    \/ Step
    \/ StepPastEnd

\* the while loop of run() goes on calling step() as long as there is an
\* event left: weak fairness of Step.  step() has no other guard than the
\* loop's condition, so <<Step>>_vars is enabled exactly when the run is not
\* Finished, and the fairness condition is written with that predicate.
RunFairness == []<>Finished \/ []<><<Step>>_vars

SpecRun == InitDisp /\ [][NextRun]_vars /\ RunFairness

(***************************************************************************)
(* run_async as one coroutine of an event loop.  Between two awaits the    *)
(* coroutine runs alone; while it sleeps other callers of the dispatcher   *)
(* run: they call step() or clear the paused flag.                         *)
(***************************************************************************)
Modes == {"continuous", "step", "realtime"}

\* how often a driver calls step() again after an exception
MaxRetries == 1

InitAsync ==
    \E scen \in Scenarios, order \in {FirstOrder}, md \in Modes :
        \E init \in {initialize_state(EmptyDict, scen, order)} :
           /\ init.result # "raise"
           /\ scenario = scen
           /\ hash_order = order
           /\ st = init.s
           /\ cl = NoState
           /\ snapshots = init.snapshots
           /\ heap = Collect(init.h,
                             Refs(init.s) \cup SnapshotRefs(init.snapshots))
           /\ current_event_index = 0
           /\ policy_order = <<>>
           /\ raised = FALSE
           /\ first_run = NoValue
           /\ step_calls = <<>>
           /\ mode = md
           /\ paused = FALSE
           /\ async_pc = "loop"
           /\ executed = <<>>

\* the delay before the next event in realtime mode is positive (the speed
\* is positive)
Sleeps ==
    /\ mode = "realtime"
    /\ current_event_index > 0
    /\ current_event_index < Len(scenario.events)
    /\ scenario.events[current_event_index + 1].time
          > scenario.events[current_event_index].time

\* the coroutine is at an await
Suspended == async_pc \in {"pause_sleep", "delay_sleep"}

\* the variables no part of run_async or step writes
AsyncFrame ==
    UNCHANGED <<heap, st, cl, scenario, hash_order, current_event_index,
                snapshots, policy_order, raised, first_run, step_calls,
                executed>>

\* the loop condition is false: return self.snapshots
AsyncReturn ==
    /\ async_pc = "loop"
    /\ current_event_index >= Len(scenario.events)
    /\ async_pc' = "returned"
    /\ AsyncFrame
    /\ UNCHANGED <<mode, paused>>

\* if self.paused: await asyncio.sleep(0.1)
AsyncPause ==
    /\ async_pc = "loop"
    /\ current_event_index < Len(scenario.events)
    /\ paused
    /\ async_pc' = "pause_sleep"
    /\ AsyncFrame
    /\ UNCHANGED <<mode, paused>>

\* the sleep is over: continue
AsyncWake ==
    /\ async_pc = "pause_sleep"
    /\ async_pc' = "loop"
    /\ AsyncFrame
    /\ UNCHANGED <<mode, paused>>

\* realtime mode: await asyncio.sleep(delay)
AsyncDelay ==
    /\ async_pc = "loop"
    /\ current_event_index < Len(scenario.events)
    /\ ~paused
    /\ Sleeps
    /\ async_pc' = "delay_sleep"
    /\ AsyncFrame
    /\ UNCHANGED <<mode, paused>>

\* self.step() and, in step mode, self.paused = True; an exception of
\* step() ends the coroutine
AfterStep ==
    /\ async_pc' = IF raised' THEN "aborted" ELSE "loop"
    /\ paused' = IF raised' THEN paused ELSE (paused \/ mode = "step")
    /\ mode' = mode

\* no await before self.step()
AsyncStep ==
    /\ async_pc = "loop"
    /\ ~paused
    /\ ~Sleeps
    /\ step
    /\ AfterStep

\* the delay is over: self.step(), whatever current_event_index is by now
AsyncDelayedStep ==
    /\ async_pc = "delay_sleep"
    /\ IF current_event_index < Len(scenario.events)
       THEN step /\ AfterStep
       ELSE /\ step_calls' = <<>>
            /\ async_pc' = "loop"
            /\ UNCHANGED <<heap, st, cl, scenario, hash_order,
                           current_event_index, snapshots, policy_order,
                           raised, first_run, executed, mode, paused>>

\* another caller calls step() while the coroutine sleeps; an exception
\* goes to that caller
ExternalStep ==
    /\ Suspended
    /\ Len(executed) < Len(scenario.events) + MaxRetries
    /\ step
    /\ UNCHANGED <<mode, paused, async_pc>>

\* the driver of step mode clears the flag
Resume ==
    /\ Suspended
    /\ paused
    /\ paused' = FALSE
    /\ AsyncFrame
    /\ UNCHANGED <<mode, async_pc>>

NextAsync ==
    \/ AsyncReturn
    \/ AsyncPause
    \/ AsyncWake
    \/ AsyncDelay
    \/ AsyncStep
    \/ AsyncDelayedStep
    \/ ExternalStep
    \/ Resume

SpecAsync == InitAsync /\ [][NextAsync]_vars

(***************************************************************************)
(* Properties of the state operations, the banker and the deadlock         *)
(* analysis.                                                               *)
(***************************************************************************)
Allocated(p, r) == Get(heap[st.processes[p].allocated], r)
Requested(p, r) == Get(heap[st.processes[p].requested], r)
MaxClaim(p, r) == Get(st.processes[p].max_claims, r)

RECURSIVE SumAllocated(_, _)
SumAllocated(pids, r) ==
    IF pids = {} THEN 0
    ELSE LET p == CHOOSE x \in pids : TRUE
         IN Allocated(p, r) + SumAllocated(pids \ {p}, r)

\* C1 (conservation): for every resource r, available(r) plus the units of r
\* allocated to the current processes equals total_units(r).
C1_Conservation ==
    \A r \in DOMAIN st.resources :
        st.resources[r].available_units + SumAllocated(DOMAIN st.processes, r)
            = st.resources[r].total_units

\* a resource whose units are split between two holders
C1_Witness ==
    \E r \in DOMAIN st.resources :
        /\ st.resources[r].available_units = 0
        /\ \A p \in Procs : p \in DOMAIN st.processes /\ Allocated(p, r) > 0

\* C2 (request validity): requested(p, r) + allocated(p, r) <= max_claims(p, r)
\* for every process and resource.
C2_RequestValidity ==
    \A p \in DOMAIN st.processes : \A r \in Res :
        Requested(p, r) + Allocated(p, r) <= MaxClaim(p, r)

\* C3 (claim bound): allocated(p, r) <= max_claims(p, r), i.e. need >= 0,
\* for every process and resource, absent keys counting as 0.
C3_ClaimBound ==
    \A p \in DOMAIN st.processes : \A r \in Res :
        /\ Allocated(p, r) <= MaxClaim(p, r)
        /\ need(heap, st.processes[p], r) >= 0

\* C4 (safety implies no deadlock): when find_safe_sequence reports safe,
\* analyze_deadlock reports has_deadlock = false.
C4_SafeImpliesNoDeadlock ==
    \A o \in HashOrders :
        find_safe_sequence(heap, st).is_safe
            => ~analyze_deadlock(heap, st, o).has_deadlock

\* executing seq from work never blocks: every process's need is covered at
\* its turn, after which work grows by what the process holds
RECURSIVE NeverBlocks(_, _)
NeverBlocks(seq, work) ==
    IF seq = <<>> THEN TRUE
    ELSE /\ \A r \in DOMAIN st.resources :
               need(heap, st.processes[Head(seq)], r) <= work[r]
         /\ NeverBlocks(Tail(seq),
               [r \in DOMAIN st.resources |-> work[r] + Allocated(Head(seq), r)])

\* C5 (banker soundness): a safe verdict comes with a sequence that holds
\* every process exactly once and never blocks when executed in order from
\* work = available; an unsafe verdict comes with no sequence.
C5_BankerSoundness ==
    LET out == find_safe_sequence(heap, st)
        seq == out.safe_sequence
    IN IF out.is_safe
       THEN /\ Len(seq) = Cardinality(DOMAIN st.processes)
            /\ { seq[i] : i \in 1..Len(seq) } = DOMAIN st.processes
            /\ NeverBlocks(seq, [r \in DOMAIN st.resources |->
                                   st.resources[r].available_units])
       ELSE seq = None

\* a safe state whose sequence is not the insertion order: the first process
\* has to wait for what the second one holds
C5_Witness ==
    /\ st.order = <<"P1", "P2">>
    /\ find_safe_sequence(heap, st) =
          [is_safe |-> TRUE, safe_sequence |-> <<"P2", "P1">>]
    /\ \E r \in Res : Allocated("P2", r) > 0

\* the requests is_safe_state is asked about
ProbeInputs == ((Procs \cup {"P9"}) \X RequestInputs) \cup {<<None, <<>>>>}

\* C6 (banker non-mutation): whatever is_safe_state(state, proc, request)
\* answers, the state's resources, processes (allocated, requested,
\* max_claims) and event log are as before the call.
C6_BankerNonMutation ==
    \A in \in ProbeInputs :
        LET out == is_safe_state(heap, st, in[1], in[2])
        IN View(Collect(out.h, Refs(st)), st) = View(heap, st)

\* a probe that allocated on its copy and came back with a safe verdict, and
\* one that came back unsafe after the tentative allocation
C6_Witness ==
    /\ \E in \in ProbeInputs :
          /\ in[2] # <<>>
          /\ is_safe_state(heap, st, in[1], in[2]).result = "return"
          /\ is_safe_state(heap, st, in[1], in[2]).value.is_safe
    /\ \E in \in ProbeInputs :
          /\ in[1] \in DOMAIN st.processes
          /\ check_request(heap, st, st.processes[in[1]], in[2]) = "ok"
          /\ is_safe_state(heap, st, in[1], in[2]).result = "return"
          /\ ~is_safe_state(heap, st, in[1], in[2]).value.is_safe

\* the pairs (p, q) with a walk of one or more edges from p to q
RECURSIVE Closure(_, _)
Closure(edges, n) ==
    IF n = 0 THEN edges
    ELSE LET c == Closure(edges, n - 1)
         IN c \cup { <<x[1][1], x[2][2]>> :
                       x \in { y \in c \X c : y[1][2] = y[2][1] } }

\* the processes with a walk of one or more wait-for edges back to themselves
OnCycle ==
    { p \in DOMAIN st.processes :
        <<p, p>> \in Closure(build_wait_for_graph(heap, st),
                             Cardinality(DOMAIN st.processes)) }

\* C10 (deadlock predicate): has_deadlock is true iff the wait-for graph has
\* a directed cycle, and deadlocked_processes lists exactly the processes
\* that lie on a cycle, each once.
C10_DeadlockPredicate ==
    \A o \in HashOrders :
        LET a == analyze_deadlock(heap, st, o)
            listed == a.deadlocked_processes
        IN /\ a.has_deadlock <=> OnCycle # {}
           /\ { listed[i] : i \in 1..Len(listed) } = OnCycle
           /\ Len(listed) = Cardinality(OnCycle)
           /\ a.has_deadlock <=> listed # <<>>

\* the circular wait of two processes beside a third that is not part of
\* it: each of the two waits for a unit the other one holds
C10_Witness ==
    /\ OnCycle = {"P1", "P2"}
    /\ "P3" \in DOMAIN st.processes
    /\ analyze_deadlock(heap, st, FirstOrder).has_deadlock
    /\ analyze_deadlock(heap, st, FirstOrder).deadlocked_processes
          = <<"P1", "P2">>

\* C7 (clone independence): after c = state.clone(), a call on c leaves the
\* original's resources, processes and event log as they were, and a call on
\* the original leaves c as it was.
C7_CloneIndependence ==
    [][ /\ st' = st => View(heap', st') = View(heap, st)
        /\ (cl # NoState /\ cl' = cl) => View(heap', cl') = View(heap, cl) ]_vars

\* the clone and the original have gone different ways: each holds a unit
\* the other does not
C7_Witness ==
    /\ cl # NoState
    /\ \E p \in DOMAIN st.processes \cap DOMAIN cl.processes, r \in Res :
          /\ Get(heap[st.processes[p].allocated], r) > 0
          /\ Get(heap[cl.processes[p].allocated], r) = 0
    /\ \E p \in DOMAIN st.processes \cap DOMAIN cl.processes, r \in Res :
          /\ Get(heap[st.processes[p].allocated], r) = 0
          /\ Get(heap[cl.processes[p].allocated], r) > 0

(***************************************************************************)
(* Properties of the dispatcher                                            *)
(***************************************************************************)
\* C8 -- Determinism: when a scenario has been run to its end a second time
\* (by a fresh dispatcher, or after reset) with the same policies, the
\* second run leaves the same snapshots, step results, recovery victims and
\* final state as the first.
C8_Determinism ==
    (scenario # NoValue /\ first_run # NoValue /\ Finished)
        => Observed(heap, st, snapshots, raised) = first_run

\* C9 -- Snapshot immutability: a step of the dispatcher (event execution,
\* recovery, new snapshot) leaves the system_state projection of every
\* snapshot taken before it as it read before the step.
C9_SnapshotImmutability ==
    [][ (current_event_index' = current_event_index + 1 \/ (raised' /\ ~raised))
          => \A k \in 1..Len(snapshots) :
                Contents(heap', snapshots[k]).system_state
                    = Contents(heap, snapshots[k]).system_state ]_vars

(***************************************************************************)
(* Properties of the wait-for graph                                        *)
(***************************************************************************)
\* C11 -- WFG edges: the wait-for graph has an edge p -> q iff p # q and
\* some resource r has requested(p, r) > 0 and allocated(q, r) > 0; no
\* process has an edge to itself.
C11_WaitForEdges ==
    LET wfg == build_wait_for_graph(heap, st)
    IN /\ wfg \subseteq (DOMAIN st.processes) \X (DOMAIN st.processes)
       /\ \A p \in DOMAIN st.processes : \A q \in DOMAIN st.processes :
             <<p, q>> \in wfg
                <=> /\ p # q
                    /\ \E r \in Res : Requested(p, r) > 0 /\ Allocated(q, r) > 0
       /\ \A p \in DOMAIN st.processes : <<p, p>> \notin wfg

\* a process asks for more of a resource it already holds a unit of, while
\* another process holds a unit of it too: one edge, and not to itself
C11_Witness ==
    \E r \in Res :
        /\ DOMAIN st.processes = {"P1", "P2"}
        /\ Requested("P1", r) > 0
        /\ Allocated("P1", r) > 0
        /\ Allocated("P2", r) > 0
        /\ build_wait_for_graph(heap, st) = {<<"P1", "P2">>}

(***************************************************************************)
(* Properties of a step of the dispatcher                                  *)
(***************************************************************************)
\* the place of each call in the order of a step
CallRank ==
    [c \in {"should_allow", "on_prevention", "state", "on_event",
            "analyze_deadlock", "on_deadlock", "recover", "on_recovery",
            "take_snapshot"} |->
       CASE c = "should_allow" -> 1
         [] c = "on_prevention" -> 2
         [] c = "state" -> 3
         [] c = "on_event" -> 4
         [] c = "analyze_deadlock" -> 5
         [] c = "on_deadlock" -> 6
         [] c = "recover" -> 7
         [] c = "on_recovery" -> 8
         [] c = "take_snapshot" -> 9]

\* a transition that is a step(): it advanced the index or raised
StepTaken ==
    \/ current_event_index' = current_event_index + 1
    \/ raised' /\ ~raised

\* C12 -- Step ordering: what a step calls, it calls in the order prevention
\* check (REQUEST events only), state mutation, deadlock analysis, recovery
\* (only after an analysis that reported deadlock, and only with a recovery
\* policy set), snapshot; the snapshot's state projection and deadlock
\* analysis are those of the state the recovery left; a step starts only
\* after the snapshot of the step before it.
C12_StepOrdering ==
    [][ StepTaken =>
          LET calls == step_calls'
              event == scenario.events[current_event_index + 1]
              snap == snapshots'[Len(snapshots')]
          IN /\ \A i \in 1..Len(calls) : \A j \in 1..Len(calls) :
                   i < j => CallRank[calls[i]] < CallRank[calls[j]]
             /\ contains(calls, "should_allow") => event.type = "request"
             /\ contains(calls, "analyze_deadlock")
             /\ contains(calls, "recover")
                   => /\ contains(calls, "on_deadlock")
                      /\ scenario.recovery_policy # "none"
             /\ ~raised
             /\ snapshots[Len(snapshots)].event_index
                   = current_event_index - 1
             /\ contains(calls, "take_snapshot")
                   <=> current_event_index' = current_event_index + 1
             /\ contains(calls, "take_snapshot")
                   => /\ snapshots' = Append(snapshots, snap)
                      /\ snap = take_snapshot(heap', st', hash_order,
                                              event.time, current_event_index,
                                              snap.last_event,
                                              snap.recovery_result)
                      /\ snap.recovery_result # NoValue
                            <=> contains(calls, "recover")
                      /\ snap.recovery_result # NoValue
                            => snap.recovery_result.analysis.has_deadlock ]_vars

\* a step that ran all five: a REQUEST let through by the prevention policy
\* closed a circular wait, the recovery broke it, and the snapshot shows no
\* deadlock
C12_Witness ==
    /\ step_calls = <<"should_allow", "state", "on_event", "analyze_deadlock",
                      "on_deadlock", "recover", "on_recovery",
                      "take_snapshot">>
    /\ snapshots[Len(snapshots)].recovery_result # NoValue
    /\ snapshots[Len(snapshots)].recovery_result.analysis.has_deadlock
    /\ ~snapshots[Len(snapshots)].deadlock_analysis.has_deadlock

\* C13 -- Event order: whatever the order of the event list a scenario is
\* built from, the dispatcher executes its events in non-decreasing time
\* order, events of equal time in the order they had in the list given; the
\* times of the snapshots with event_index >= 0 are non-decreasing.
C13_EventOrder ==
    scenario # NoValue =>
       LET given == scenario.timeline
           run == scenario.events
       IN /\ Len(run) = Len(given)
          /\ \A e \in { given[i] : i \in 1..Len(given) } :
                Cardinality({ i \in 1..Len(run) : run[i] = e })
                   = Cardinality({ i \in 1..Len(given) : given[i] = e })
          /\ \A i \in 1..Len(run) : \A j \in 1..Len(run) :
                i < j => /\ run[i].time <= run[j].time
                         /\ run[i].time = run[j].time
                               => index(given, run[i]) < index(given, run[j])
          /\ \A k \in 2..Len(snapshots) :
                /\ snapshots[k].event_index = k - 2
                /\ snapshots[k].time = run[k - 1].time
                /\ k > 2 => snapshots[k - 1].time <= snapshots[k].time

\* a list given out of order, with two events of one time, has been run to
\* its last event
C13_Witness ==
    /\ scenario # NoValue
    /\ scenario.timeline # scenario.events
    /\ \E i \in 1..Len(scenario.timeline) :
          \E j \in (i + 2)..Len(scenario.timeline) :
             scenario.timeline[i].time = scenario.timeline[j].time
    /\ Len(scenario.events) > 0
    /\ Len(snapshots) = Len(scenario.events) + 1

\* C14 -- Prevention denial: a step whose REQUEST event the prevention
\* policy denied reports success = false and prevention_blocked = true and
\* made no call on the state for the event, so that resources and every
\* process's allocated and requested maps are what the deadlock check of
\* the step (and its recovery, if any) makes of the state before the event;
\* the policy is consulted for REQUEST events only.
C14_PreventionDenial ==
    [][ StepTaken =>
          LET event == scenario.events[current_event_index + 1]
              snap == snapshots'[Len(snapshots')]
          IN /\ contains(step_calls', "should_allow")
                   => /\ event.type = "request"
                      /\ scenario.prevention_policy # "none"
             /\ contains(step_calls', "on_prevention")
                   => /\ event.type = "request"
                      /\ ~contains(step_calls', "state")
                      /\ snap.last_event = EventResult(FALSE, FALSE, TRUE)
                      /\ \E rec \in {check_and_recover_deadlock(
                                         heap, st, scenario.recovery_policy,
                                         hash_order)} :
                            /\ View(heap', st').resources
                                  = View(rec.h, rec.s).resources
                            /\ View(heap', st').processes
                                  = View(rec.h, rec.s).processes
                      /\ scenario.recovery_policy = "none"
                            => /\ View(heap', st').resources
                                     = View(heap, st).resources
                               /\ View(heap', st').processes
                                     = View(heap, st).processes ]_vars

\* the banker denied the request that would have closed the circular wait:
\* the requester holds its unit and has no request on record
C14_Witness ==
    /\ scenario # NoValue
    /\ scenario.prevention_policy = "bankers"
    /\ step_calls = <<"should_allow", "on_prevention", "analyze_deadlock",
                      "take_snapshot">>
    /\ snapshots[Len(snapshots)].last_event.prevention_blocked
    /\ \E p \in DOMAIN st.processes : \E r \in Res :
          /\ Allocated(p, r) > 0
          /\ \A q \in Res : Requested(p, q) = 0

(***************************************************************************)
(* Properties of errors and refusals                                       *)
(***************************************************************************)
\* events the state has to reject, and some it need not
EventProbes ==
    { Event(0, type, proc, res, units) :
        type \in {"allocate", "request", "release"}, proc \in {"P1", "P9"},
        res \in {"R1", "R9"}, units \in {0, 1} }
    \cup { [time |-> 0, type |-> "add_process", proc |-> proc, max |-> mc] :
             proc \in {"P1", "P4"},
             mc \in { "R1" :> 1, "R1" :> (MaxUnits + 1), "R9" :> 1 } }
    \cup { ProcessEvent(0, "remove_process", proc) : proc \in {"P1", "P9"} }

\* the event breaks a validation rule of the state: an unknown process or
\* resource id, request or release units that are not positive, a process
\* id already there, a max claim above the total units
Invalid(event) ==
    CASE event.type \in {"allocate", "request", "release"} ->
            \/ event.proc \notin DOMAIN st.processes
            \/ event.res \notin DOMAIN st.resources
            \/ event.type # "allocate" /\ event.units <= 0
      [] event.type = "add_process" ->
            \/ event.proc \in DOMAIN st.processes
            \/ \E r \in DOMAIN event.max :
                  \/ r \notin DOMAIN st.resources
                  \/ event.max[r] > st.resources[r].total_units
      [] event.type = "remove_process" ->
            event.proc \notin DOMAIN st.processes

\* C15 -- Validation errors do not abort the run: an event that breaks a
\* validation rule of the state (and is not denied by the prevention policy
\* before it reaches the state) gives a result with success = false and an
\* error, and leaves resources, processes and event log as they were; the
\* step of an event that raised goes on to its deadlock check (and recovery,
\* if any) on the state as it was before the event, appends its snapshot
\* and advances the index by one.
C15_ValidationErrors ==
    [][ /\ \A event \in EventProbes :
             Invalid(event) =>
                \E ev \in {execute_event(heap, st, event,
                                         scenario.prevention_policy,
                                         policy_order)} :
                   /\ View(ev.h, ev.s) = View(heap, st)
                   /\ \/ ev.result = EventResult(FALSE, TRUE, FALSE)
                      \/ /\ ev.result = EventResult(FALSE, FALSE, TRUE)
                         /\ event.type = "request"
                         /\ scenario.prevention_policy # "none"
        /\ StepTaken =>
             \E ev \in {execute_event(heap, st,
                                      scenario.events[current_event_index + 1],
                                      scenario.prevention_policy,
                                      policy_order)} :
                ev.result.error =>
                   /\ View(ev.h, ev.s) = View(heap, st)
                   /\ ~ev.result.success
                   /\ ~raised'
                   /\ current_event_index' = current_event_index + 1
                   /\ Len(snapshots') = Len(snapshots) + 1
                   /\ snapshots'[Len(snapshots')].last_event = ev.result
                   /\ snapshots'[Len(snapshots')].event_index
                         = current_event_index
                   /\ \E rec \in {check_and_recover_deadlock(
                                      heap, st, scenario.recovery_policy,
                                      hash_order)} :
                         View(heap', st') = View(rec.h, rec.s)
                   /\ scenario.recovery_policy = "none"
                         => View(heap', st') = View(heap, st) ]_vars

\* the step of a REQUEST that names no process: an error in the result, the
\* snapshot taken, the index advanced to the end of a timeline that left
\* units allocated
C15_Witness ==
    /\ scenario # NoValue
    /\ current_event_index = Len(scenario.events)
    /\ current_event_index > 1
    /\ snapshots[Len(snapshots)].last_event = EventResult(FALSE, TRUE, FALSE)
    /\ snapshots[Len(snapshots)].event_index = current_event_index - 1
    /\ \E p \in DOMAIN st.processes : \E r \in Res : Allocated(p, r) > 0

\* the units a call is made with, beyond those the calls of the model use
CallUnits == 1..(MaxUnits + 1)

\* the record types of the refusals
RefusalRecords ==
    {"allocation_failed:insufficient_available",
     "allocation_failed:exceeds_max_claim",
     "request_rejected:exceeds_need",
     "release_failed:insufficient_allocation"}

\* the call returned false and left the state as it was but for one refusal
\* record more in the event log
Refused(out) ==
    /\ out.result = "false"
    /\ View(out.h, out.s) = [View(heap, st) EXCEPT !.event_log = @ + 1]
    /\ Len(out.log) = 1
    /\ out.log[1] \in RefusalRecords

\* C16 -- Business-rule refusals: allocate with units > available or with
\* allocated + units > max_claims, request with units > need and release
\* with units > allocated return false without raising, leave every
\* resource's available and every process's allocated and requested as they
\* were, and append exactly one refusal record to the event log.
C16_Refusals ==
    \A p \in DOMAIN st.processes : \A r \in DOMAIN st.resources :
       \A u \in CallUnits :
          /\ (\/ u > st.resources[r].available_units
              \/ Allocated(p, r) + u > MaxClaim(p, r))
                => Refused(allocate(heap, st, p, r, u))
          /\ u > MaxClaim(p, r) - Allocated(p, r)
                => Refused(request(heap, st, p, r, u))
          /\ u > Allocated(p, r)
                => Refused(release(heap, st, p, r, u))

\* a process that holds a unit and has a request on record is refused all
\* three: more than is available, more than it needs, more than it holds
C16_Witness ==
    \E p \in DOMAIN st.processes : \E r \in DOMAIN st.resources :
       /\ Allocated(p, r) = 1
       /\ Requested(p, r) > 0
       /\ st.resources[r].available_units = 0
       /\ MaxClaim(p, r) = MaxUnits
       /\ st.event_log > 4
       /\ Refused(allocate(heap, st, p, r, 1))
       /\ Refused(request(heap, st, p, r, MaxUnits))
       /\ Refused(release(heap, st, p, r, MaxUnits))

\* C17 -- Refusals are logged: a step whose event was refused (by the state:
\* insufficient available, exceeds max claim, exceeds need, insufficient
\* allocation to release; or by the prevention policy, which denied a
\* REQUEST) has appended a record to the state's event log for the event.
C17_RefusalsLogged ==
    [][ StepTaken =>
          \E ev \in {execute_event(heap, st,
                                   scenario.events[current_event_index + 1],
                                   scenario.prevention_policy,
                                   policy_order)} :
             (~ev.result.success /\ ~ev.result.error)
                => /\ ev.s.event_log > st.event_log
                   /\ ev.log # <<>>
                   /\ st'.event_log > st.event_log ]_vars

(***************************************************************************)
(* Effects of the calls on the state                                       *)
(***************************************************************************)
\* resources and processes as they are now
Now == View(heap, st)

\* C18 -- allocate effect: a successful allocate(p, r, u) with u > 0 takes u
\* off available(r), adds u to allocated(p, r) and leaves requested(p, r)
\* at max(0, requested(p, r) - u), without the key when that is zero; no
\* other resource and no other process changes; allocate with u = 0
\* returns true and changes no resource and no process.
C18_AllocateEffect ==
    \A p \in DOMAIN st.processes : \A r \in DOMAIN st.resources :
       /\ \E out \in {allocate(heap, st, p, r, 0)} :
             /\ out.result = "true"
             /\ View(out.h, out.s).resources = Now.resources
             /\ View(out.h, out.s).processes = Now.processes
       /\ \A u \in CallUnits :
             \E out \in {allocate(heap, st, p, r, u)} :
                out.result = "true" =>
                   /\ View(out.h, out.s).resources =
                         [Now.resources EXCEPT ![r].available_units = @ - u]
                   /\ View(out.h, out.s).processes =
                         [Now.processes EXCEPT
                            ![p].allocated = Put(@, r, Allocated(p, r) + u),
                            ![p].requested =
                               IF Requested(p, r) - u > 0
                               THEN Put(@, r, Requested(p, r) - u)
                               ELSE Del(@, r)]
                   /\ View(out.h, out.s).order = Now.order

\* a process that asked for two units and was given one can be given the
\* other: that takes the last unit available and clears the request, while
\* another process holds a unit and a request of its own
C18_Witness ==
    \E p \in DOMAIN st.processes : \E r \in DOMAIN st.resources :
       /\ Allocated(p, r) = 1
       /\ Requested(p, r) = 1
       /\ st.resources[r].available_units = 1
       /\ allocate(heap, st, p, r, 1).result = "true"
       /\ \E q \in DOMAIN st.processes \ {p} : \E r2 \in DOMAIN st.resources :
             Allocated(q, r2) > 0 /\ Requested(q, r2) > 0

\* C19 -- request effect: request(p, r, u) with u > 0 returns true iff
\* u <= need(p, r) = max_claims(p, r) - allocated(p, r), and false
\* otherwise; on success requested(p, r) grows by exactly u and nothing else
\* changes: no resource's available and no process's allocated is modified.
C19_RequestEffect ==
    \A p \in DOMAIN st.processes : \A r \in DOMAIN st.resources :
       \A u \in CallUnits :
          \E out \in {request(heap, st, p, r, u)} :
             /\ out.result \in {"true", "false"}
             /\ out.result = "true" <=> u <= MaxClaim(p, r) - Allocated(p, r)
             /\ need(heap, st.processes[p], r)
                   = MaxClaim(p, r) - Allocated(p, r)
             /\ out.result = "true" =>
                   /\ View(out.h, out.s).resources = Now.resources
                   /\ View(out.h, out.s).processes =
                         [Now.processes EXCEPT
                            ![p].requested = Put(@, r, Requested(p, r) + u)]
                   /\ View(out.h, out.s).order = Now.order

\* a process that holds a unit and has asked for one more can ask again for
\* one, and not for all it may claim
C19_Witness ==
    \E p \in DOMAIN st.processes : \E r \in DOMAIN st.resources :
       /\ Allocated(p, r) = 1
       /\ Requested(p, r) = 1
       /\ MaxClaim(p, r) = MaxUnits
       /\ request(heap, st, p, r, 1).result = "true"
       /\ request(heap, st, p, r, MaxUnits).result = "false"

\* C20 -- release effect: release(p, r, u) with u > 0 returns true iff
\* u <= allocated(p, r), and false otherwise; on success allocated(p, r)
\* goes down by u, without the key when that is zero, and available(r) goes
\* up by u, while the requested maps, the other resources and the other
\* processes stay as they were.
C20_ReleaseEffect ==
    \A p \in DOMAIN st.processes : \A r \in DOMAIN st.resources :
       \A u \in CallUnits :
          \E out \in {release(heap, st, p, r, u)} :
             /\ out.result \in {"true", "false"}
             /\ out.result = "true" <=> u <= Allocated(p, r)
             /\ out.result = "true" =>
                   /\ View(out.h, out.s).resources =
                         [Now.resources EXCEPT ![r].available_units = @ + u]
                   /\ View(out.h, out.s).processes =
                         [Now.processes EXCEPT
                            ![p].allocated =
                               IF Allocated(p, r) - u = 0 THEN Del(@, r)
                               ELSE Put(@, r, Allocated(p, r) - u)]
                   /\ View(out.h, out.s).order = Now.order

\* a process that holds all the units of a resource it also has a request
\* on record for can give back one, or all, and a process that holds none
\* can give back none
C20_Witness ==
    \E p \in DOMAIN st.processes : \E r \in DOMAIN st.resources :
       /\ Allocated(p, r) = MaxUnits
       /\ \E r2 \in DOMAIN st.resources : Requested(p, r2) > 0
       /\ release(heap, st, p, r, 1).result = "true"
       /\ release(heap, st, p, r, MaxUnits).result = "true"
       /\ \E q \in DOMAIN st.processes :
             /\ Allocated(q, r) = 0
             /\ release(heap, st, q, r, 1).result = "false"

\* C21 -- remove_process effect: remove_process(p) for an existing p takes p
\* out of the process set and adds allocated(p, r) to available(r) for
\* every resource r, leaving every other process's allocated, requested and
\* max_claims as they were; for an unknown p it raises and changes nothing.
C21_RemoveProcessEffect ==
    \A p \in Procs \cup {"P9"} :
       \E out \in {remove_process(heap, st, p)} :
          IF p \in DOMAIN st.processes
          THEN /\ out.result = "none"
               /\ View(out.h, out.s).processes = Del(Now.processes, p)
               /\ View(out.h, out.s).resources =
                     [r \in DOMAIN st.resources |->
                        [total_units |-> st.resources[r].total_units,
                         available_units |->
                            st.resources[r].available_units + Allocated(p, r)]]
               /\ View(out.h, out.s).order
                     = SelectSeq(st.order, LAMBDA q : q # p)
          ELSE /\ out.result = "raise"
               /\ View(out.h, out.s) = Now

\* a process that holds units of both resources and has a request on record
\* can be removed, beside another process that holds a unit too
C21_Witness ==
    \E p \in DOMAIN st.processes :
       /\ \A r \in Res : r \in DOMAIN st.resources /\ Allocated(p, r) > 0
       /\ \E r \in Res : Requested(p, r) > 0
       /\ remove_process(heap, st, p).result = "none"
       /\ \E q \in DOMAIN st.processes \ {p} : \E r \in Res :
             Allocated(q, r) > 0
       /\ remove_process(heap, st, "P9").result = "raise"

\* C22 -- add_process validation: add_process(id, max_claims) raises and
\* leaves resources, processes and event log as they were when id is already
\* there, a claimed resource is unknown, or some max_claims[r] is above
\* total_units(r); and every key of every process's max_claims is an
\* existing resource with 0 <= max_claims[r] <= total_units(r).
C22_AddProcessValidation ==
    /\ \A p \in Procs : \A mc \in MaxClaimInputs \cup {"R9" :> 1} :
          (\/ p \in DOMAIN st.processes
           \/ \E r \in DOMAIN mc :
                 \/ r \notin DOMAIN st.resources
                 \/ mc[r] > st.resources[r].total_units)
             => \E out \in {add_process(heap, st, p, mc, 0)} :
                   /\ out.result = "raise"
                   /\ View(out.h, out.s) = Now
    /\ \A p \in DOMAIN st.processes :
          \A r \in DOMAIN st.processes[p].max_claims :
             /\ r \in DOMAIN st.resources
             /\ 0 <= st.processes[p].max_claims[r]
             /\ st.processes[p].max_claims[r] <= st.resources[r].total_units

(***************************************************************************)
(* Properties of the banker's algorithm                                    *)
(***************************************************************************)
\* the orderings of all the processes of the state
Orderings ==
    LET n == Cardinality(DOMAIN st.processes)
    IN { seq \in [1..n -> DOMAIN st.processes] :
           \A i \in 1..n : \A j \in 1..n : seq[i] = seq[j] => i = j }

\* what is available now, by resource
AvailableNow ==
    [r \in DOMAIN st.resources |-> st.resources[r].available_units]

\* C23 -- Banker completeness: find_safe_sequence reports safe iff some
\* ordering of all the processes has each process's need covered by what is
\* available plus what the processes before it hold; no processes at all
\* is safe with the empty sequence.
C23_BankerCompleteness ==
    /\ find_safe_sequence(heap, st).is_safe
          <=> \E seq \in Orderings : NeverBlocks(seq, AvailableNow)
    /\ DOMAIN st.processes = {}
          => find_safe_sequence(heap, st)
                = [is_safe |-> TRUE, safe_sequence |-> <<>>]

\* the only ordering that works is not the insertion order, and the search
\* finds it on its second pass
C23_Witness ==
    /\ st.order = <<"P1", "P2">>
    /\ ~NeverBlocks(<<"P1", "P2">>, AvailableNow)
    /\ NeverBlocks(<<"P2", "P1">>, AvailableNow)
    /\ find_safe_sequence(heap, st).is_safe

\* the processes find_safe_sequence appends, in order, whatever its verdict
Appended ==
    IF DOMAIN st.processes = {} THEN <<>>
    ELSE banker_loop(heap, st,
                     [work |-> AvailableNow, finish |-> {},
                      safe_sequence |-> <<>>, progress |-> TRUE]).safe_sequence

\* the work vector once the first k processes of seq have finished
RECURSIVE WorkAfter(_, _)
WorkAfter(seq, k) ==
    IF k = 0 THEN AvailableNow
    ELSE LET w == WorkAfter(seq, k - 1)
         IN [r \in DOMAIN st.resources |-> w[r] + Allocated(seq[k], r)]

\* the unfinished processes whose needs the work vector covers when the
\* k-th process of seq is chosen
Candidates(seq, k) ==
    LET w == WorkAfter(seq, k - 1)
    IN { p \in DOMAIN st.processes \ { seq[i] : i \in 1..(k - 1) } :
           \A r \in DOMAIN st.resources :
              need(heap, st.processes[p], r) <= w[r] }

\* C24 -- Banker tie-breaking: every process appended by
\* find_safe_sequence is, when it is chosen, the first in the state's
\* insertion order among all the unfinished processes whose needs the
\* current work vector covers.
C24_FirstInInsertionOrder ==
    \A k \in 1..Len(Appended) :
       /\ Appended[k] \in Candidates(Appended, k)
       /\ \A q \in Candidates(Appended, k) :
             index(st.order, Appended[k]) <= index(st.order, q)

\* the requests put to the tentative check: those of the state's calls, one
\* of no units, and one whose second item exceeds every need
SafetyRequests ==
    RequestInputs
       \cup { << <<"R1", 0>> >>, << <<"R1", 1>>, <<"R2", MaxUnits + 2>> >> }

\* the units a request asks of resource r
UnitsOf(rq, r) ==
    IF \E i \in 1..Len(rq) : rq[i][1] = r
    THEN rq[CHOOSE i \in 1..Len(rq) : rq[i][1] = r][2]
    ELSE 0

\* a request for existing resources and no negative amounts
WellFormed(rq) ==
    \A i \in 1..Len(rq) : rq[i][1] \in DOMAIN st.resources /\ rq[i][2] >= 0

\* some item of the request exceeds p's need or what is available
FailsFast(p, rq) ==
    \E i \in 1..Len(rq) :
       \/ rq[i][2] > need(heap, st.processes[p], rq[i][1])
       \/ rq[i][2] > st.resources[rq[i][1]].available_units

\* the heap and the state once every item of the request is granted to p
GrantedHeap(p, rq) ==
    LET a == heap[st.processes[p].allocated]
    IN [heap EXCEPT ![st.processes[p].allocated] =
           [r \in DOMAIN a \cup { rq[i][1] : i \in 1..Len(rq) } |->
               Get(a, r) + UnitsOf(rq, r)]]

GrantedState(rq) ==
    [st EXCEPT !.resources =
        [r \in DOMAIN st.resources |->
            [st.resources[r] EXCEPT !.available_units = @ - UnitsOf(rq, r)]]]

\* C25 -- Tentative request check: for an existing process p and a
\* non-empty request of non-negative amounts of existing resources,
\* is_safe_state returns (False, None) if some item exceeds p's need or the
\* available units, and otherwise returns what find_safe_sequence returns
\* on the state with every item granted to p.
C25_TentativeRequest ==
    \A p \in DOMAIN st.processes : \A rq \in SafetyRequests :
       WellFormed(rq) =>
          LET out == is_safe_state(heap, st, p, rq)
          IN /\ out.result = "return"
             /\ out.value =
                   IF FailsFast(p, rq) THEN Unsafe
                   ELSE find_safe_sequence(GrantedHeap(p, rq),
                                           GrantedState(rq))

\* a safe state in which granting a request that passes both tests would
\* leave no safe sequence, and another request that fails fast
C25_Witness ==
    /\ find_safe_sequence(heap, st).is_safe
    /\ \E p \in DOMAIN st.processes : \E rq \in SafetyRequests :
          /\ WellFormed(rq) /\ ~FailsFast(p, rq)
          /\ \E i \in 1..Len(rq) : rq[i][2] > 0
          /\ is_safe_state(heap, st, p, rq).value = Unsafe
    /\ \E p \in DOMAIN st.processes : \E rq \in SafetyRequests :
          WellFormed(rq) /\ FailsFast(p, rq)

(***************************************************************************)
(* Properties of the prevention policies                                   *)
(***************************************************************************)
\* the orderings a ResourceOrderingPolicy is constructed with; the empty
\* one is replaced by the sorted resource ids at the first call
OrderInputs == { <<>>, <<"R1">>, <<"R1", "R2">>, <<"R2", "R1">> }

\* the resources p holds that appear in the ordering
HeldInOrder(p, order) ==
    { r \in DOMAIN heap[st.processes[p].allocated] :
         Allocated(p, r) > 0 /\ contains(order, r) }

\* C26 -- ResourceOrdering rule: for an existing process p, should_allow
\* returns, never raises, and allows iff every requested resource of the
\* ordering has a rank at least the highest rank of the resources of the
\* ordering that p holds; resources outside the ordering are ignored.
C26_OrderingRule ==
    \A p \in DOMAIN st.processes : \A rq \in RequestInputs :
       \A order \in OrderInputs :
          LET out == ordering_should_allow(heap, st, p, rq, order)
              held == HeldInOrder(p, out.resource_order)
          IN /\ out.result = "return"
             /\ out.allowed
                   <=> \A k \in 1..Len(rq) : \A r \in held :
                          contains(out.resource_order, rq[k][1])
                             => index(out.resource_order, rq[k][1])
                                   >= index(out.resource_order, r)

\* C27 -- Conservative rule: in every state reached through the state's
\* calls no total need of a process exceeds the total units of the
\* resource, and for an existing process and a request for existing
\* resources should_allow returns and allows iff every requested amount is
\* at most the units available of its resource.
C27_ConservativeRule ==
    \A p \in DOMAIN st.processes :
       /\ \A r \in DOMAIN total_need(heap, st.processes[p]) :
             total_need(heap, st.processes[p])[r]
                <= st.resources[r].total_units
       /\ \A rq \in SafetyRequests :
             (\A k \in 1..Len(rq) : rq[k][1] \in DOMAIN st.resources)
                => LET out == conservative_should_allow(heap, st, p, rq, <<>>)
                   IN /\ out.result = "return"
                      /\ out.allowed
                            <=> \A k \in 1..Len(rq) :
                                   rq[k][2]
                                      <= st.resources[rq[k][1]].available_units

\* a process whose total need of a resource is all of its units, one
\* request the policy denies and one of a positive amount that it allows
C27_Witness ==
    \E p \in DOMAIN st.processes :
       /\ \E r \in DOMAIN total_need(heap, st.processes[p]) :
             /\ total_need(heap, st.processes[p])[r]
                   = st.resources[r].total_units
             /\ st.resources[r].available_units < st.resources[r].total_units
       /\ \E rq \in SafetyRequests :
             /\ \A k \in 1..Len(rq) : rq[k][1] \in DOMAIN st.resources
             /\ ~conservative_should_allow(heap, st, p, rq, <<>>).allowed
       /\ \E rq \in SafetyRequests :
             /\ \A k \in 1..Len(rq) : rq[k][1] \in DOMAIN st.resources
             /\ \E k \in 1..Len(rq) : rq[k][2] > 0
             /\ conservative_should_allow(heap, st, p, rq, <<>>).allowed

(***************************************************************************)
(* Properties of the recovery policies                                     *)
(***************************************************************************)
\* the deadlocked processes as the dispatcher hands them to recover
DeadlockedNow == analyze_deadlock(heap, st, hash_order).deadlocked_processes

\* the deadlocked processes of minimum priority
LowestPriority ==
    { p \in DOMAIN st.processes :
         /\ contains(DeadlockedNow, p)
         /\ \A q \in DOMAIN st.processes :
               contains(DeadlockedNow, q)
                  => priority_of(st, p) <= priority_of(st, q) }

\* the state once every unit victim holds has gone back to available
Preempted(victim) ==
    [Now EXCEPT
       !.processes[victim].allocated = EmptyDict,
       !.resources = [r \in DOMAIN st.resources |->
                        [st.resources[r] EXCEPT !.available_units =
                            @ + Allocated(victim, r)]]]

\* C28 -- PreemptLowestPriority: given a non-empty deadlock set, recover
\* chooses the deadlocked process of minimum priority that comes first in
\* the state's insertion order, releases every unit it holds, leaves it in
\* the process set with its max_claims and requests, changes no other
\* process, and returns affected = [victim].
C28_PreemptLowestPriority ==
    DeadlockedNow # <<>> =>
       \E out \in {preempt_low_priority(heap, st, DeadlockedNow)} :
          \E victim \in LowestPriority :
             /\ \A q \in LowestPriority :
                   index(st.order, victim) <= index(st.order, q)
             /\ out.success
             /\ out.affected = <<victim>>
             /\ [View(out.h, out.s) EXCEPT !.event_log = st.event_log]
                   = Preempted(victim)

\* the units a process holds, over all resources
UnitsHeld(p) == sum_values(heap[st.processes[p].allocated])

\* C29 -- MinimalCost priority factor: of two deadlocked processes that
\* hold the same positive number of units and have non-negative
\* priorities, the one with the smaller priority number has the smaller
\* cost, and the other one is not the victim recover chooses.
C29_LowerPriorityLowerCost ==
    \A p \in DOMAIN st.processes : \A q \in DOMAIN st.processes :
       ( /\ contains(DeadlockedNow, p) /\ contains(DeadlockedNow, q)
         /\ 0 <= priority_of(st, p)
         /\ priority_of(st, p) < priority_of(st, q)
         /\ UnitsHeld(p) = UnitsHeld(q)
         /\ UnitsHeld(p) > 0 )
       => /\ cost_less(calculate_cost(heap, st, p),
                       calculate_cost(heap, st, q))
          /\ preempt_min_cost(heap, st, DeadlockedNow).affected # <<q>>

\* the members of the deadlock set
DeadlockSet == { p \in DOMAIN st.processes : contains(DeadlockedNow, p) }

\* the state once the processes of gone have been removed
Killed(gone) ==
    [Now EXCEPT
       !.processes = [p \in DOMAIN st.processes \ gone |-> Now.processes[p]],
       !.order = SelectSeq(st.order, LAMBDA p : p \notin gone),
       !.resources = [r \in DOMAIN st.resources |->
                        [st.resources[r] EXCEPT !.available_units =
                            @ + SumAllocated(gone, r)]]]

\* the units of r held in a view of the state
RECURSIVE HeldIn(_, _, _)
HeldIn(view, pids, r) ==
    IF pids = {} THEN 0
    ELSE LET p == CHOOSE x \in pids : TRUE
         IN Get(view.processes[p].allocated, r) + HeldIn(view, pids \ {p}, r)

\* available plus held is the total, for every resource of a view
Conserved(view) ==
    \A r \in DOMAIN view.resources :
       view.resources[r].available_units
          + HeldIn(view, DOMAIN view.processes, r)
          = view.resources[r].total_units

\* C30 -- Kill recovery: given a non-empty deadlock set, KillOne removes
\* exactly one process, a member of the set of minimum priority, and
\* KillAll removes exactly the members of the set; the units of the
\* removed processes go back to available, conservation holds afterwards,
\* and the max_claims, allocated and requested of every surviving process
\* are as before.
C30_KillRecovery ==
    DeadlockedNow # <<>> =>
       /\ \E out \in {kill(heap, st, DeadlockedNow, FALSE)} :
             \E victim \in LowestPriority :
                /\ out.success
                /\ out.affected = <<victim>>
                /\ [View(out.h, out.s) EXCEPT !.event_log = st.event_log]
                      = Killed({victim})
                /\ Conserved(View(out.h, out.s))
       /\ \E out \in {kill(heap, st, DeadlockedNow, TRUE)} :
             /\ out.success
             /\ out.affected = DeadlockedNow
             /\ [View(out.h, out.s) EXCEPT !.event_log = st.event_log]
                   = Killed(DeadlockSet)
             /\ Conserved(View(out.h, out.s))

\* a deadlock of several processes that hold units, the one of minimum
\* priority not the first handed to recover, beside a process that is not
\* deadlocked
C30_Witness ==
    /\ Len(DeadlockedNow) >= 2
    /\ Cardinality(LowestPriority) = 1
    /\ Head(DeadlockedNow) \notin LowestPriority
    /\ \A p \in DeadlockSet : UnitsHeld(p) > 0
    /\ DOMAIN st.processes \ DeadlockSet # {}
    /\ kill(heap, st, DeadlockedNow, FALSE).success
    /\ Len(kill(heap, st, DeadlockedNow, TRUE).affected) >= 2

(***************************************************************************)
(* Properties of the dispatcher's runs                                     *)
(***************************************************************************)
\* the snapshots of the steps whose recovery returned success
Recovered ==
    { i \in 1..Len(snapshots) :
         /\ snapshots[i].recovery_result # NoValue
         /\ snapshots[i].recovery_result.success }

\* C31 -- Recovery breaks the deadlock: the snapshot of every step in which
\* a recovery policy was invoked and returned success reports no deadlock.
C31_RecoveryBreaksDeadlock ==
    \A i \in Recovered : ~snapshots[i].deadlock_analysis.has_deadlock

\* the state a scenario describes before any event: every unit available,
\* nothing allocated or requested
Pristine(scen) ==
    [resources |->
        [r \in { scen.resources[i].id : i \in 1..Len(scen.resources) } |->
            LET i == CHOOSE j \in 1..Len(scen.resources) :
                        scen.resources[j].id = r
            IN [total_units |-> scen.resources[i].units,
                available_units |-> scen.resources[i].units]],
     order |-> [i \in 1..Len(scen.processes) |-> scen.processes[i].id],
     processes |->
        [p \in { scen.processes[i].id : i \in 1..Len(scen.processes) } |->
            LET i == CHOOSE j \in 1..Len(scen.processes) :
                        scen.processes[j].id = p
            IN [max_claims |-> scen.processes[i].max,
                allocated |-> EmptyDict,
                requested |-> EmptyDict,
                priority |-> scen.processes[i].priority]]]

\* what a dispatcher shows just after its construction
AsConstructed ==
    /\ [resources |-> View(heap, st).resources,
        order |-> View(heap, st).order,
        processes |-> View(heap, st).processes] = Pristine(scenario)
    /\ current_event_index = 0
    /\ Len(snapshots) = 1
    /\ snapshots[1].time = 0
    /\ snapshots[1].event_index = 0 - 1
    /\ Contents(heap, snapshots[1]).system_state
          = Contents(heap, [system_state |-> snapshot(heap, st)]).system_state
    /\ ~snapshots[1].deadlock_analysis.has_deadlock
    /\ snapshots[1].last_event = NoValue
    /\ snapshots[1].recovery_result = NoValue

\* C32 -- reset: whatever steps were executed before, reset() leaves the
\* dispatcher as it was after construction: the state holds the scenario's
\* resources with all units available and its processes with nothing
\* allocated or requested, current_event_index is 0, and the only snapshot
\* is snapshot #0 with time 0 and event_index -1.
C32_Reset == [][Reset => AsConstructed']_vars

\* a dispatcher just reset after a complete run that changed the state
\* and whose ordering policy had been used
C32_Witness ==
    /\ scenario # NoValue
    /\ AsConstructed
    /\ policy_order # <<>>
    /\ first_run # NoValue
    /\ Len(first_run.snapshots) > 2
    /\ first_run.state.resources # Pristine(scenario).resources

\* C33 -- run termination: for every timeline and every policy pair run()
\* comes to an end; when it returns, current_event_index is the number of
\* events; and a further step() changes neither the state, nor the index,
\* nor the snapshot list.
C33_RunTerminates ==
    /\ <>Finished
    /\ [](Finished /\ ~raised
            => current_event_index = Len(scenario.events))
    /\ [][StepPastEnd => /\ View(heap', st') = View(heap, st)
                         /\ current_event_index' = current_event_index
                         /\ snapshots' = snapshots
                         /\ heap' = heap]_vars

\* run() has returned from a timeline of seven events, and step() has been
\* called once more
C33_Witness ==
    /\ current_event_index = Len(scenario.events)
    /\ Len(scenario.events) = 7
    /\ Len(snapshots) = 8
    /\ ~raised
    /\ step_calls = <<>>

\* a change of the state, the index or the snapshot list
StateTouched ==
    \/ View(heap', st') # View(heap, st)
    \/ current_event_index' # current_event_index
    \/ snapshots' # snapshots
    \/ executed' # executed

\* one whole step(): the event at the index is executed, the deadlock is
\* checked, the snapshot is taken and the index advanced
WholeStep ==
    /\ executed' = Append(executed, current_event_index)
    /\ step_calls'[Len(step_calls')] = "take_snapshot"
    /\ Len(snapshots') = Len(snapshots) + 1
    /\ snapshots'[Len(snapshots')].event_index = current_event_index
    /\ current_event_index' = current_event_index + 1

\* C34 -- Async step atomicity: when run_async is interleaved at its awaits
\* with other callers of step(), every change of the state is one whole
\* step from event execution to snapshot, each event index is executed at
\* most once, and the indices are executed in increasing order.
C34_AsyncAtomicity ==
    /\ [][StateTouched => WholeStep]_vars
    /\ [](\A i \in 1..Len(executed) : \A j \in 1..Len(executed) :
             i < j => executed[i] < executed[j])

(***************************************************************************)
(* Properties of the deadlock analysis                                     *)
(***************************************************************************)
\* C35 -- RAG cycle is necessary for deadlock: in every state where
\* analyze_deadlock reports has_deadlock, the resource allocation graph has
\* a cycle: rag_cycles and deadlocked_resources are both non-empty.
C35_RagCycleNecessary ==
    analyze_deadlock(heap, st, hash_order).has_deadlock
       => /\ rag_analysis(heap, st).rag_cycles # {}
          /\ rag_analysis(heap, st).deadlocked_resources # {}

\* a deadlock of two processes over both resources, beside a process that
\* is on no cycle
C35_Witness ==
    /\ analyze_deadlock(heap, st, hash_order).has_deadlock
    /\ rag_analysis(heap, st).deadlocked_resources = {"R1", "R2"}
    /\ Cardinality(rag_analysis(heap, st).rag_cycles) = 1
    /\ Cardinality(DOMAIN st.processes) = 3

\* C36 -- The dispatcher continues past recovery: every call of step()
\* made while current_event_index is before the end of the timeline
\* completes, advances the index by exactly one and appends exactly one
\* snapshot, whatever the event, the priorities and the recovery policy; no
\* exception leaves step().
C36_StepCompletes ==
    /\ [][executed' # executed
            => /\ current_event_index' = current_event_index + 1
               /\ Len(snapshots') = Len(snapshots) + 1
               /\ ~raised']_vars
    /\ []~raised

\* C37 -- Snapshot bookkeeping: in every state of a dispatcher, after its
\* construction, after any number of steps and after a reset, there are
\* current_event_index + 1 snapshots, and the k-th of them, counted from 0,
\* has event_index k - 1.
C37_SnapshotBookkeeping ==
    scenario # NoValue
       => /\ Len(snapshots) = current_event_index + 1
          /\ \A k \in 1..Len(snapshots) : snapshots[k].event_index = k - 2

\* a dispatcher that was run to its end, reset, and stepped three times
\* more
C37_Witness ==
    /\ scenario # NoValue
    /\ first_run # NoValue
    /\ hash_order = FirstOrder
    /\ policy_order # <<>>
    /\ current_event_index = 3
    /\ Len(snapshots) = 4
    /\ Len(scenario.events) > 4

(***************************************************************************)
(* Properties of prevention in a run                                       *)
(***************************************************************************)
\* the timeline holds ALLOCATE, REQUEST and RELEASE events only
AllocationTimeline ==
    \A i \in 1..Len(scenario.events) :
       scenario.events[i].type \in {"allocate", "request", "release"}

Summary == get_summary(scenario, current_event_index, snapshots)

PositiveEntries(d) == \A r \in DOMAIN d : d[r] > 0

\* C40 -- Map well-formedness: in every state, every entry stored in a
\* process's allocated map and in its requested map is strictly positive, and
\* every resource has 0 <= available_units <= total_units.
C40_MapWellFormedness ==
    /\ \A p \in DOMAIN st.processes :
          /\ PositiveEntries(heap[st.processes[p].allocated])
          /\ PositiveEntries(heap[st.processes[p].requested])
    /\ \A r \in DOMAIN st.resources :
          /\ 0 <= st.resources[r].available_units
          /\ st.resources[r].available_units <= st.resources[r].total_units

\* one process holds every unit of a resource and has no request for it on
\* record, none is left available, and another process, holding nothing,
\* waits for it
C40_Witness ==
    \E p \in DOMAIN st.processes, r \in DOMAIN st.resources :
       /\ MaxUnits > 1
       /\ Allocated(p, r) = MaxUnits
       /\ st.resources[r].total_units = MaxUnits
       /\ st.resources[r].available_units = 0
       /\ r \notin DOMAIN heap[st.processes[p].requested]
       /\ \E q \in DOMAIN st.processes :
             /\ q # p
             /\ Requested(q, r) > 0
             /\ DOMAIN heap[st.processes[q].allocated] = {}

====
